---- MODULE Spec2Model ----
(***************************************************************************)
(* Gaming-Time-Tracker: the session tracker (game_monitor.rs), the driving *)
(* loop and the command handlers with their two mutexes (main.rs), and the *)
(* accounting of database.rs / models.rs.                                  *)
(*                                                                         *)
(* Time is counted in ticks of 1/TicksPerSecond second: chrono timestamps  *)
(* carry sub-second precision and the code converts every difference with  *)
(* Duration::num_seconds(), which truncates.                               *)
(***************************************************************************)
EXTENDS Integers, Sequences, FiniteSets, TLC

\* ------------------------------------------------------------------ bounds
TicksPerSecond == 2
MaxTime == 2
MaxProcs == 2
MaxSessions == 2
MaxPeriods == 3
MaxEndpoint == 4

\* --------------------------------------------------------------- variables
VARIABLES
    now,                 \* the wall clock (Utc::now()), in ticks
    procs,               \* the OS process table read by sysinfo: kind -> count
    active_sessions,     \* GameMonitor.active_sessions
    completed_sessions,  \* GameMonitor.completed_sessions
    is_paused,           \* GameMonitor.is_paused
    known_games,         \* GameMonitor.known_games
    next_id,             \* the next fresh session id (uuid::Uuid::new_v4)
    monitor_lock,        \* holder of AppState.monitor's mutex
    db_lock,             \* holder of AppState.db's mutex
    loop_pc,             \* position of the driving loop
    loop_completed,      \* the loop's local `completed_sessions`
    tick_start,          \* history: the tracker's sessions when the current tick began
    h_pc,                \* position of the command handler
    h_cmd,               \* the command it runs
    db_sessions,         \* rows of table `sessions`
    save_calls,          \* history: the sessions passed to save_session
    m_periods,           \* calculate_unique_time_periods: its argument
    m_result,            \* calculate_unique_time_periods: its return value
    db_settings,         \* rows of table `settings`: key -> value
    db_learning,         \* rows of table `learning_activities`
    db_rollover,         \* rows of table `budget_rollover`
    budget,              \* the BudgetStatus the last budget query returned
    call_args,           \* the arguments of a call of a function of the program
    call_result          \* the value that the call returned

envVars     == <<now, procs>>
monitorVars == <<active_sessions, completed_sessions, is_paused, known_games, next_id>>
lockVars    == <<monitor_lock, db_lock>>
loopVars    == <<loop_pc, loop_completed, tick_start>>
handlerVars == <<h_pc, h_cmd>>
dbVars      == <<db_sessions, save_calls>>
calcVars    == <<m_periods, m_result, call_args, call_result>>
ledgerVars  == <<db_settings, db_learning, db_rollover, budget>>
vars == <<envVars, monitorVars, lockVars, loopVars, handlerVars, dbVars, calcVars,
          ledgerVars>>

\* ------------------------------------------------------------ basic values
\* Option<T>: None is the empty sequence, Some(x) the one-element sequence.
None == <<>>
Some(x) == <<x>>
IsSome(o) == o # None
Unwrap(o) == o[1]

\* chrono::Duration::num_seconds: whole seconds, truncated toward zero.
num_seconds(d) ==
    IF d >= 0 THEN d \div TicksPerSecond ELSE -((-d) \div TicksPerSecond)

RemoveAt(s, i) == SubSeq(s, 1, i - 1) \o SubSeq(s, i + 1, Len(s))

Range(s) == {s[i] : i \in DOMAIN s}

\* --------------------------------------------------------- process classes
\* A process of the snapshot: its name and whether its executable path
\* contains the "steamapps" marker.
Minecraft == [name |-> "minecraft.exe", steamapps |-> FALSE]
MyGame    == [name |-> "my_game.exe",   steamapps |-> TRUE]
SteamExe  == [name |-> "steam.exe",     steamapps |-> TRUE]
ProcUniverse == {Minecraft, MyGame, SteamExe}

InitialKnownGames ==
    [n \in {"steam.exe", "League of Legends.exe", "RiotClientServices.exe",
            "Valorant.exe", "csgo.exe", "dota2.exe", "RocketLeague.exe",
            "destiny2.exe", "overwatch.exe", "wow.exe", "minecraft.exe",
            "epicgameslauncher.exe", "battle.net.exe", "origin.exe", "uplay.exe"} |->
        CASE n = "steam.exe" -> "Steam"
          [] n = "League of Legends.exe" -> "League of Legends"
          [] n = "RiotClientServices.exe" -> "Riot Games"
          [] n = "Valorant.exe" -> "Valorant"
          [] n = "csgo.exe" -> "Counter-Strike: Global Offensive"
          [] n = "dota2.exe" -> "Dota 2"
          [] n = "RocketLeague.exe" -> "Rocket League"
          [] n = "destiny2.exe" -> "Destiny 2"
          [] n = "overwatch.exe" -> "Overwatch"
          [] n = "wow.exe" -> "World of Warcraft"
          [] n = "minecraft.exe" -> "Minecraft"
          [] n = "epicgameslauncher.exe" -> "Epic Games Launcher"
          [] n = "battle.net.exe" -> "Battle.net"
          [] n = "origin.exe" -> "EA Origin"
          [] n = "uplay.exe" -> "Ubisoft Connect"]

blacklisted_processes ==
    {"wallpaper32.exe", "wallpaper64.exe", "steamwebhelper.exe",
     "steamerrorreporter.exe", "crashhandler.exe", "steam.exe"}

is_likely_steam_game(p) == p.steamapps

\* trim ".exe", '_' and '-' to spaces, capitalise each word; tabulated for
\* the names of ProcUniverse that reach it.
get_steam_game_name(process_name) ==
    CASE process_name = "my_game.exe" -> "My Game"
      [] process_name = "steam.exe" -> "Steam"
      [] process_name = "minecraft.exe" -> "Minecraft"

\* Variant: the table of known games is consulted before the blacklist.
classify_known_first(known, p) ==
    IF p.name \in DOMAIN known THEN << <<p.name, known[p.name]>> >>
    ELSE IF p.name \in blacklisted_processes THEN <<>>
    ELSE IF is_likely_steam_game(p) THEN << <<p.name, get_steam_game_name(p.name)>> >>
    ELSE <<>>

\* One process of the scan: the (process_name, display_name) pairs it adds.
classify(known, p) ==
    IF p.name \in blacklisted_processes THEN <<>>
    ELSE IF p.name \in DOMAIN known THEN << <<p.name, known[p.name]>> >>
    ELSE IF is_likely_steam_game(p) THEN << <<p.name, get_steam_game_name(p.name)>> >>
    ELSE <<>>

RECURSIVE find_all_gaming_processes(_, _)
find_all_gaming_processes(known, scan) ==
    IF scan = <<>> THEN <<>>
    ELSE classify(known, Head(scan)) \o find_all_gaming_processes(known, Tail(scan))

\* ----------------------------------------------------------------- session
GameSession_new(game_name, process_name, id, t) ==
    [id |-> id,
     game_name |-> game_name,
     process_name |-> process_name,
     start_time |-> t,
     end_time |-> None,
     duration_seconds |-> None,
     is_social_session |-> FALSE,
     is_concurrent |-> FALSE,
     concurrent_session_ids |-> <<>>]

\* Variant: the duration is left in clock ticks instead of whole seconds.
end_session_ticks(s, t) ==
    [s EXCEPT !.end_time = Some(t),
              !.duration_seconds = Some(t - s.start_time)]

end_session(s, t) ==
    [s EXCEPT !.end_time = Some(t),
              !.duration_seconds = Some(num_seconds(t - s.start_time))]

get_active_session_ids(active) == [i \in 1..Len(active) |-> active[i].id]

\* Variant: the filter keeps the session itself instead of the others.
get_concurrent_session_ids_same(active, current) ==
    LET others == SelectSeq(active, LAMBDA s : s.id = current.id)
    IN  [i \in 1..Len(others) |-> others[i].id]

get_concurrent_session_ids(active, current) ==
    LET others == SelectSeq(active, LAMBDA s : s.id # current.id)
    IN  [i \in 1..Len(others) |-> others[i].id]

\* ------------------------------------------------------ GameMonitor::update
\* Variant: every Active session is taken to end.
sessions_to_end_all(active, running_processes) == [i \in 1..Len(active) |-> i]

\* Indices (ascending) of the sessions whose process is not running.
sessions_to_end(active, running_processes) ==
    SelectSeq([i \in 1..Len(active) |-> i],
              LAMBDA i : active[i].process_name \notin Range(running_processes))

\* Variant: every ending session is flagged, whether or not another was Active.
RECURSIVE end_sessions_always_flagged(_, _, _, _, _)
end_sessions_always_flagged(active, completed, to_end, k, t) ==
    IF k = 0 THEN [active |-> active, completed |-> completed]
    ELSE LET index   == to_end[k]
             rest    == RemoveAt(active, index)
             ended   == end_session(active[index], t)
             session == [ended EXCEPT
                           !.is_concurrent = TRUE,
                           !.concurrent_session_ids =
                               get_concurrent_session_ids(rest, ended)]
         IN  end_sessions_always_flagged(rest, Append(completed, session), to_end, k - 1, t)

\* The removal loop, walking sessions_to_end in reverse: entries k, k-1, .., 1.
RECURSIVE end_sessions(_, _, _, _, _)
end_sessions(active, completed, to_end, k, t) ==
    IF k = 0 THEN [active |-> active, completed |-> completed]
    ELSE LET index   == to_end[k]
             rest    == RemoveAt(active, index)
             ended   == end_session(active[index], t)
             session == IF Len(rest) > 0 \/ Len(to_end) > 1
                        THEN [ended EXCEPT
                                !.is_concurrent = TRUE,
                                !.concurrent_session_ids =
                                    get_concurrent_session_ids(rest, ended)]
                        ELSE ended
         IN  end_sessions(rest, Append(completed, session), to_end, k - 1, t)

\* Variant: the scan compares the display name with the process name.
already_tracking_by_game_name(active, process_name) ==
    \E i \in DOMAIN active : active[i].game_name = process_name

already_tracking(active, process_name) ==
    \E i \in DOMAIN active : active[i].process_name = process_name

\* Variant: the new session is pushed before the ids are taken, so that it
\* lists itself.
start_session_lists_itself(active, process_name, display_name, id, t) ==
    LET new_session == GameSession_new(display_name, process_name, id, t)
    IN  IF active # <<>>
        THEN Append([i \in DOMAIN active |->
                        [active[i] EXCEPT
                            !.is_concurrent = TRUE,
                            !.concurrent_session_ids = Append(@, id)]],
                    [new_session EXCEPT
                        !.is_concurrent = TRUE,
                        !.concurrent_session_ids =
                            Append(get_active_session_ids(active), id)])
        ELSE Append(active, new_session)

\* Variant: the Active sessions list the new id alone.
start_session_replaces_ids(active, process_name, display_name, id, t) ==
    LET new_session == GameSession_new(display_name, process_name, id, t)
    IN  IF active # <<>>
        THEN Append([i \in DOMAIN active |->
                        [active[i] EXCEPT
                            !.is_concurrent = TRUE,
                            !.concurrent_session_ids = <<id>>]],
                    [new_session EXCEPT
                        !.is_concurrent = TRUE,
                        !.concurrent_session_ids = get_active_session_ids(active)])
        ELSE Append(active, new_session)

\* Variant: only the new session is linked, the Active ones are left alone.
start_session_one_way(active, process_name, display_name, id, t) ==
    LET new_session == GameSession_new(display_name, process_name, id, t)
    IN  IF active # <<>>
        THEN Append(active,
                    [new_session EXCEPT
                        !.is_concurrent = TRUE,
                        !.concurrent_session_ids = get_active_session_ids(active)])
        ELSE Append(active, new_session)

\* The body of `if !already_tracking`: the new session and its links.
start_session(active, process_name, display_name, id, t) ==
    LET new_session == GameSession_new(display_name, process_name, id, t)
    IN  IF active # <<>>
        THEN Append([i \in DOMAIN active |->
                        [active[i] EXCEPT
                            !.is_concurrent = TRUE,
                            !.concurrent_session_ids = Append(@, id)]],
                    [new_session EXCEPT
                        !.is_concurrent = TRUE,
                        !.concurrent_session_ids = get_active_session_ids(active)])
        ELSE Append(active, new_session)

RECURSIVE start_sessions(_, _, _, _)
start_sessions(active, detected, id, t) ==
    IF detected = <<>> THEN [active |-> active, next_id |-> id]
    ELSE IF already_tracking(active, Head(detected)[1])
         THEN start_sessions(active, Tail(detected), id, t)
         ELSE start_sessions(
                  start_session(active, Head(detected)[1], Head(detected)[2], id, t),
                  Tail(detected), id + 1, t)

\* update() on the process scan `scan` (in sysinfo's iteration order) at time t.
\* Variant: update() without the early return on is_paused.
update_while_paused(active, completed, paused, known, id, scan, t) ==
    LET detected == find_all_gaming_processes(known, scan)
        running_processes == [i \in 1..Len(detected) |-> detected[i][1]]
        to_end == sessions_to_end(active, running_processes)
        e == end_sessions(active, completed, to_end, Len(to_end), t)
        s == start_sessions(e.active, detected, id, t)
    IN  [active |-> s.active, completed |-> e.completed, next_id |-> s.next_id]

update(active, completed, paused, known, id, scan, t) ==
    IF paused
    THEN [active |-> active, completed |-> completed, next_id |-> id]
    ELSE LET detected == find_all_gaming_processes(known, scan)
             running_processes == [i \in 1..Len(detected) |-> detected[i][1]]
             to_end == sessions_to_end(active, running_processes)
             e == end_sessions(active, completed, to_end, Len(to_end), t)
             s == start_sessions(e.active, detected, id, t)
         IN  [active |-> s.active, completed |-> e.completed, next_id |-> s.next_id]

\* Variant: the queue is cloned but not cleared.
get_completed_sessions_keep(completed) ==
    [returned |-> completed, completed_sessions |-> completed]

\* get_completed_sessions(): the clone that is returned and the cleared queue.
get_completed_sessions(completed) ==
    [returned |-> completed, completed_sessions |-> <<>>]

\* ------------------------------------------------------------- persistence
\* save_session: one INSERT; it fails on an I/O error or a duplicate primary key.
save_session(table, session, io_ok) ==
    IF io_ok /\ (\A r \in table : r.id # session.id)
    THEN [ok |-> TRUE, table |-> table \cup {session}]
    ELSE [ok |-> FALSE, table |-> table]

SecondsPerMinute == 60

\* add_fake_gaming_session(minutes) builds this row at time t.
fake_gaming_session(minutes, id, t) ==
    [id |-> id,
     game_name |-> "Debug Fake Game",
     process_name |-> "debug.exe",
     start_time |-> t - minutes * SecondsPerMinute * TicksPerSecond,
     end_time |-> Some(t),
     duration_seconds |-> Some(minutes * SecondsPerMinute),
     is_social_session |-> FALSE,
     is_concurrent |-> FALSE,
     concurrent_session_ids |-> <<>>]

\* ------------------------------------------- calculate_unique_time_periods
\* sort_by_key(|(start, _, _)| *start): a stable sort, written as the
\* insertion of each period behind the periods that start no later.
RECURSIVE insert_by_start(_, _)
insert_by_start(sorted, x) ==
    IF sorted = <<>> THEN <<x>>
    ELSE IF Head(sorted)[1] <= x[1]
         THEN <<Head(sorted)>> \o insert_by_start(Tail(sorted), x)
         ELSE <<x>> \o sorted

RECURSIVE sort_by_start(_)
sort_by_start(periods) ==
    IF periods = <<>> THEN <<>>
    ELSE insert_by_start(sort_by_start(SubSeq(periods, 1, Len(periods) - 1)),
                         periods[Len(periods)])

\* The sweep over the sorted periods (start, end, is_concurrent).
RECURSIVE sweep(_, _, _)
sweep(sorted, total_seconds, current_end) ==
    IF sorted = <<>> THEN total_seconds
    ELSE LET start == Head(sorted)[1]
             end   == Head(sorted)[2]
         IN  IF current_end = None
             THEN sweep(Tail(sorted), total_seconds + num_seconds(end - start), Some(end))
             ELSE IF start >= Unwrap(current_end)
             THEN sweep(Tail(sorted), total_seconds + num_seconds(end - start), Some(end))
             ELSE IF end > Unwrap(current_end)
             THEN sweep(Tail(sorted),
                        total_seconds + num_seconds(end - Unwrap(current_end)), Some(end))
             ELSE sweep(Tail(sorted), total_seconds, current_end)

calculate_unique_time_periods(periods) ==
    IF periods = <<>> THEN 0 ELSE sweep(sort_by_start(periods), 0, None)

\* ------------------------------------------------------------------ budget
\* Rust's `/` on integers: the quotient truncated toward zero (b > 0 here).
TruncDiv(a, b) == IF a >= 0 THEN a \div b ELSE -((-a) \div b)

Max(a, b) == IF a >= b THEN a ELSE b

TicksPerMinute == SecondsPerMinute * TicksPerSecond

SecondsPerDay == 86400

\* Local::now().date_naive().and_hms_opt(0, 0, 0): the local midnight of the
\* day of t. Tick 0 is a local midnight.
today_start(t) == (t \div (SecondsPerDay * TicksPerSecond)) * (SecondsPerDay * TicksPerSecond)

\* insert_default_settings on an empty table.
default_settings ==
    [k \in {"daily_allowance_minutes", "rollover_days", "notifications_enabled",
            "warning_threshold_minutes"} |->
        CASE k = "daily_allowance_minutes" -> "120"
          [] k = "rollover_days" -> "3"
          [] k = "notifications_enabled" -> "true"
          [] k = "warning_threshold_minutes" -> "15"]

\* str::parse::<i32>(), tabulated for the values that the model stores.
parse_i32(value) ==
    CASE value = "120" -> Some(120)
      [] value = "60" -> Some(60)
      [] value = "15" -> Some(15)
      [] value = "3" -> Some(3)
      [] OTHER -> None

unwrap_or(o, default) == IF IsSome(o) THEN Unwrap(o) ELSE default

get_settings(table) ==
    [daily_allowance_minutes |->
        IF "daily_allowance_minutes" \in DOMAIN table
        THEN unwrap_or(parse_i32(table["daily_allowance_minutes"]), 120) ELSE 120,
     rollover_days |->
        IF "rollover_days" \in DOMAIN table
        THEN unwrap_or(parse_i32(table["rollover_days"]), 3) ELSE 3,
     notifications_enabled |->
        IF "notifications_enabled" \in DOMAIN table
        THEN table["notifications_enabled"] = "true" ELSE TRUE,
     warning_threshold_minutes |->
        IF "warning_threshold_minutes" \in DOMAIN table
        THEN unwrap_or(parse_i32(table["warning_threshold_minutes"]), 15) ELSE 15]

\* INSERT OR REPLACE INTO settings.
update_setting(table, key, value) ==
    [k \in DOMAIN table \cup {key} |-> IF k = key THEN value ELSE table[k]]

\* Variant: every activity type earns at the default rate.
LearningActivity_new_default_rate(activity_type, duration_minutes, t) ==
    [activity_type |-> activity_type,
     duration_minutes |-> duration_minutes,
     earned_gaming_minutes |-> TruncDiv(duration_minutes, 5),
     timestamp |-> t]

LearningActivity_new(activity_type, duration_minutes, t) ==
    [activity_type |-> activity_type,
     duration_minutes |-> duration_minutes,
     earned_gaming_minutes |->
        CASE activity_type = "coding" -> TruncDiv(duration_minutes, 4)
          [] activity_type = "reading" -> TruncDiv(duration_minutes, 6)
          [] activity_type = "course" -> TruncDiv(duration_minutes, 4)
          [] activity_type = "exercise" -> TruncDiv(duration_minutes, 3)
          [] OTHER -> TruncDiv(duration_minutes, 5),
     timestamp |-> t]

\* The row that add_debug_earned_minutes(minutes) builds at time t.
debug_earned_activity(minutes, t) ==
    [activity_type |-> "debug",
     duration_minutes |-> (IF minutes >= 0 THEN minutes ELSE -minutes) * 4,
     earned_gaming_minutes |-> minutes,
     timestamp |-> t]

\* INSERT INTO learning_activities; every row has a fresh id.
add_learning_activity(table, activity) == Append(table, activity)

\* COALESCE(SUM(earned_gaming_minutes), 0) ... WHERE timestamp >= today_start.
RECURSIVE get_earned_minutes_today(_, _)
get_earned_minutes_today(table, t) ==
    IF table = <<>> THEN 0
    ELSE (IF Head(table).timestamp >= today_start(t)
          THEN Head(table).earned_gaming_minutes ELSE 0)
         + get_earned_minutes_today(Tail(table), t)

\* DateTime<Utc>::to_rfc3339 as a sequence of character codes. The first
\* element stands for "YYYY-MM-DDTHH:MM:SS": zero-padded fields of fixed
\* width, which compare as the whole seconds do. Behind it comes the fraction
\* in 3, 6 or 9 digits when it is not zero ('.' is 46, a digit 48 + d), then
\* the '+' (43) of "+00:00".
to_rfc3339(t) ==
    LET nanos == ((t % TicksPerSecond) * 1000000000) \div TicksPerSecond
        digits(n, k) == [i \in 1..k |-> 48 + ((n \div (10 ^ (k - i))) % 10)]
    IN  <<t \div TicksPerSecond>> \o
        (IF nanos = 0 THEN <<43>>
         ELSE IF nanos % 1000000 = 0 THEN <<46>> \o digits(nanos \div 1000000, 3) \o <<43>>
         ELSE IF nanos % 1000 = 0 THEN <<46>> \o digits(nanos \div 1000, 6) \o <<43>>
         ELSE <<46>> \o digits(nanos, 9) \o <<43>>)

\* The comparison of two TEXT values in SQLite: byte by byte.
RECURSIVE text_less(_, _)
text_less(a, b) ==
    IF b = <<>> THEN FALSE
    ELSE IF a = <<>> THEN TRUE
    ELSE IF Head(a) # Head(b) THEN Head(a) < Head(b)
    ELSE text_less(Tail(a), Tail(b))

\* Variant: a plain INSERT into a table without the primary key.
add_rollover_insert(table, date, unused_minutes, expires_at) ==
    table \cup {[date |-> date, unused_minutes |-> unused_minutes,
                 expires_at |-> to_rfc3339(expires_at)]}

\* INSERT OR REPLACE INTO budget_rollover: `date` is the primary key, so the
\* row that holds the date is deleted before the new row is inserted.
add_rollover(table, date, unused_minutes, expires_at) ==
    {r \in table : r.date # date}
        \cup {[date |-> date, unused_minutes |-> unused_minutes,
               expires_at |-> to_rfc3339(expires_at)]}

\* SUM(unused_minutes) over rows.
RECURSIVE sum_unused_minutes(_)
sum_unused_minutes(rows) ==
    IF rows = {} THEN 0
    ELSE LET r == CHOOSE x \in rows : TRUE
         IN  r.unused_minutes + sum_unused_minutes(rows \ {r})

\* Variant: the DELETE has no WHERE clause and runs behind the SUM.
get_rollover_minutes_clears(table, t) ==
    LET now_text == to_rfc3339(t)
    IN  [minutes |-> sum_unused_minutes({r \in table : ~text_less(r.expires_at, now_text)}),
         table |-> {}]

\* Variant: the DELETE also takes the entries that expire at now.
get_rollover_minutes_inclusive(table, t) ==
    LET now_text == to_rfc3339(t)
        kept == {r \in table : text_less(now_text, r.expires_at)}
    IN  [minutes |-> sum_unused_minutes(kept), table |-> kept]

\* get_rollover_minutes: DELETE ... WHERE expires_at < now, then
\* COALESCE(SUM(unused_minutes), 0) ... WHERE expires_at >= now.
get_rollover_minutes(table, t) ==
    LET now_text == to_rfc3339(t)
        kept == {r \in table : ~text_less(r.expires_at, now_text)}
    IN  [minutes |-> sum_unused_minutes({r \in kept : ~text_less(r.expires_at, now_text)}),
         table |-> kept]

\* A row whose stored start_time text is no RFC 3339 timestamp carries the
\* text in start_time_text (its start_time field is then not read).
unparseable_start_time(r) == "start_time_text" \in DOMAIN r

\* WHERE start_time >= ?1, a comparison of texts: timestamps written by
\* to_rfc3339 compare as their instants do, and the damaged text of the model
\* sorts behind every timestamp.
start_time_not_before(r, t) == unparseable_start_time(r) \/ r.start_time >= t

\* get_today_usage_minutes panics: parse_from_rfc3339(..).unwrap() on a
\* selected row.
today_usage_panics(table, t) ==
    \E r \in table : /\ start_time_not_before(r, today_start(t))
                     /\ IsSome(r.duration_seconds)
                     /\ unparseable_start_time(r)

\* The orders in which ORDER BY start_time may hand out the rows.
OrderedByStart(rows) ==
    {o \in [1..Cardinality(rows) -> rows] :
        \A i, j \in 1..Cardinality(rows) :
            i < j => o[i] # o[j] /\ o[i].start_time <= o[j].start_time}

\* Variant: the rows are selected by their end time.
get_today_usage_minutes_by_end(table, t) ==
    LET rows == {r \in table :
                    /\ IsSome(r.end_time) /\ Unwrap(r.end_time) >= today_start(t)
                    /\ IsSome(r.duration_seconds)}
        time_periods(o) ==
            [i \in 1..Len(o) |->
                <<o[i].start_time, Unwrap(o[i].end_time), o[i].is_concurrent>>]
    IN  {TruncDiv(calculate_unique_time_periods(time_periods(o)), SecondsPerMinute) :
            o \in OrderedByStart(rows)}

\* get_today_usage_minutes: the values it may return, one per row order.
get_today_usage_minutes(table, t) ==
    LET rows == {r \in table :
                    /\ start_time_not_before(r, today_start(t))
                    /\ IsSome(r.duration_seconds)}
        time_periods(o) ==
            LET ended == SelectSeq(o, LAMBDA r : IsSome(r.end_time))
            IN  [i \in 1..Len(ended) |->
                    <<ended[i].start_time, Unwrap(ended[i].end_time),
                      ended[i].is_concurrent>>]
    IN  {TruncDiv(calculate_unique_time_periods(time_periods(o)), SecondsPerMinute) :
            o \in OrderedByStart(rows)}

\* DELETE FROM sessions WHERE start_time >= today_start.
reset_today_sessions(table, t) ==
    {r \in table : ~start_time_not_before(r, today_start(t))}

BudgetStatus_new(daily_allowance) ==
    [daily_allowance_minutes |-> daily_allowance,
     used_today_minutes |-> 0,
     remaining_today_minutes |-> daily_allowance,
     rollover_minutes |-> 0,
     earned_minutes |-> 0,
     total_available_minutes |-> daily_allowance]

\* Variant: the total leaves out the earned minutes.
update_usage_without_earned(b, used_minutes) ==
    LET total == b.daily_allowance_minutes + b.rollover_minutes
    IN  [b EXCEPT !.used_today_minutes = used_minutes,
                  !.total_available_minutes = total,
                  !.remaining_today_minutes = Max(total - used_minutes, 0)]

\* Variant: the remainder is not clamped at 0.
update_usage_unclamped(b, used_minutes) ==
    LET total == b.daily_allowance_minutes + b.rollover_minutes + b.earned_minutes
    IN  [b EXCEPT !.used_today_minutes = used_minutes,
                  !.total_available_minutes = total,
                  !.remaining_today_minutes = total - used_minutes]

update_usage(b, used_minutes) ==
    LET total == b.daily_allowance_minutes + b.rollover_minutes + b.earned_minutes
    IN  [b EXCEPT !.used_today_minutes = used_minutes,
                  !.total_available_minutes = total,
                  !.remaining_today_minutes = Max(total - used_minutes, 0)]

\* Database::get_budget_status at time t: the statuses it may return.
get_budget_status(settings_table, sessions_table, learning_table, rollover_table, t) ==
    LET settings == get_settings(settings_table)
        rollover == get_rollover_minutes(rollover_table, t).minutes
        earned   == get_earned_minutes_today(learning_table, t)
        fresh    == [BudgetStatus_new(settings.daily_allowance_minutes)
                        EXCEPT !.rollover_minutes = rollover,
                               !.earned_minutes = earned]
    IN  {update_usage(fresh, used_today) :
            used_today \in get_today_usage_minutes(sessions_table, t)}

\* Variant: the elapsed times of the Active sessions are added up.
RECURSIVE get_total_active_time_summed(_, _)
get_total_active_time_summed(active, t) ==
    IF active = <<>> THEN 0
    ELSE num_seconds(t - Head(active).start_time)
            + get_total_active_time_summed(Tail(active), t)

\* GameMonitor::get_total_active_time at time t.
get_total_active_time(active, t) ==
    IF active = <<>> THEN 0
    ELSE LET earliest_start ==
                CHOOSE s \in {active[i].start_time : i \in DOMAIN active} :
                    \A i \in DOMAIN active : s <= active[i].start_time
         IN  num_seconds(t - earliest_start)

\* Variant: the active time is added in seconds.
add_active_time_in_seconds(b, active, t) ==
    update_usage(b, b.used_today_minutes + get_total_active_time(active, t))

\* The body of the get_realtime_budget_status command behind get_budget_status.
add_active_time(b, active, t) ==
    LET active_time_minutes == TruncDiv(get_total_active_time(active, t), SecondsPerMinute)
    IN  update_usage(b, b.used_today_minutes + active_time_minutes)

\* --------------------------------------------------------------- the world
ProcCount(pt) ==
    LET RECURSIVE Sum(_)
        Sum(S) == IF S = {} THEN 0
                  ELSE LET p == CHOOSE q \in S : TRUE IN pt[p] + Sum(S \ {p})
    IN  Sum(ProcUniverse)

\* The orders in which sysinfo's HashMap may hand out the processes of pt.
Scans(pt) ==
    {s \in [1..ProcCount(pt) -> ProcUniverse] :
        \A p \in ProcUniverse : Cardinality({i \in DOMAIN s : s[i] = p}) = pt[p]}

\* Names that the next update would open a session for.
PendingNames(pt, known, active) ==
    {p.name : p \in {q \in ProcUniverse : pt[q] > 0 /\ classify(known, q) # <<>>}}
        \ {active[i].process_name : i \in DOMAIN active}

Commands == {"pause_monitoring", "resume_monitoring", "get_realtime_budget_status"}
NeedsDb(cmd) == cmd \in {"get_realtime_budget_status"}
NeedsMonitor(cmd) == cmd \in {"pause_monitoring", "resume_monitoring",
                              "get_realtime_budget_status"}

\* main() has built the tracker; the loop and the handlers are idle.
TrackerInit ==
    /\ now = 0
    /\ procs = [p \in ProcUniverse |-> 0]
    /\ active_sessions = <<>>
    /\ completed_sessions = <<>>
    /\ is_paused = FALSE
    /\ known_games = InitialKnownGames
    /\ next_id = 1
    /\ monitor_lock = "free"
    /\ db_lock = "free"
    /\ loop_pc = "sleep"
    /\ loop_completed = <<>>
    /\ tick_start = None
    /\ h_pc = "idle"
    /\ h_cmd = "none"

\* Database::new() on a machine without a database file.
FreshDatabase ==
    /\ db_sessions = {}
    /\ save_calls = <<>>
    /\ db_settings = default_settings
    /\ db_learning = <<>>
    /\ db_rollover = {}
    /\ budget = None

ProgramInit == TrackerInit /\ FreshDatabase

\* No call of a function is under observation.
NoCall == call_args = None /\ call_result = None

Init ==
    /\ ProgramInit
    /\ m_periods = <<>>
    /\ m_result = None
    /\ NoCall

\* ------------------------------------------------------------- environment
\* The clock and the process table are read by update() alone, at the start of
\* a tick; the rest of the tick reads neither, so a step of the world during
\* a tick is the same step taken when the tick is over.
Advance ==
    /\ loop_pc = "sleep"
    /\ now < MaxTime
    /\ now' = now + 1
    /\ UNCHANGED <<calcVars, ledgerVars, procs, monitorVars, lockVars, loopVars, handlerVars, dbVars>>

ProcStart(p) ==
    /\ loop_pc = "sleep"
    /\ ProcCount(procs) < MaxProcs
    /\ LET pt == [procs EXCEPT ![p] = @ + 1]
       IN  /\ (next_id - 1) + Cardinality(PendingNames(pt, known_games, active_sessions))
                 <= MaxSessions
           /\ procs' = pt
    /\ UNCHANGED <<calcVars, ledgerVars, now, monitorVars, lockVars, loopVars, handlerVars, dbVars>>

ProcExit(p) ==
    /\ loop_pc = "sleep"
    /\ procs[p] > 0
    /\ procs' = [procs EXCEPT ![p] = @ - 1]
    /\ UNCHANGED <<calcVars, ledgerVars, now, monitorVars, lockVars, loopVars, handlerVars, dbVars>>

\* ------------------------------------------------------------ driving loop
\* Variant: Mutex::lock, whose caller waits while the lock is held.
try_lock_waits(l) == IF l = "free" THEN "Ok" ELSE "Wait"

\* Mutex::try_lock returns at once, with the guard or with an error.
try_lock(l) == IF l = "free" THEN "Ok" ELSE "Err"

\* A tick: monitor_clone.try_lock() succeeds and monitor.update() runs.
LoopTick ==
    /\ loop_pc = "sleep"
    /\ monitor_lock = "free"
    /\ monitor_lock' = "loop"
    /\ \E scan \in Scans(procs) :
         LET u == update(active_sessions, completed_sessions, is_paused,
                         known_games, next_id, scan, now)
         IN  /\ active_sessions' = u.active
             /\ completed_sessions' = u.completed
             /\ next_id' = u.next_id
    /\ loop_pc' = "drain"
    /\ tick_start' = Some([active |-> active_sessions, completed |-> completed_sessions])
    /\ UNCHANGED <<calcVars, ledgerVars, envVars, is_paused, known_games, db_lock, loop_completed,
                   handlerVars, dbVars>>

\* A tick on which monitor_clone.try_lock() fails: the body is skipped.
LoopTickSkipped ==
    /\ loop_pc = "sleep"
    /\ monitor_lock # "free"
    /\ UNCHANGED vars

\* let completed_sessions = monitor.get_completed_sessions();
LoopDrain ==
    /\ loop_pc = "drain"
    /\ LET g == get_completed_sessions(completed_sessions)
       IN  /\ loop_completed' = g.returned
           /\ completed_sessions' = g.completed_sessions
    /\ loop_pc' = "try_db"
    /\ UNCHANGED <<calcVars, ledgerVars, envVars, active_sessions, is_paused, known_games, next_id,
                   lockVars, tick_start, handlerVars, dbVars>>

\* db_clone.try_lock(): on failure the drained sessions go out of scope with
\* the end of the tick.
LoopTryLockDb ==
    /\ loop_pc = "try_db"
    /\ try_lock(db_lock) # "Wait"
    /\ IF try_lock(db_lock) = "Ok"
       THEN /\ db_lock' = "loop"
            /\ loop_pc' = "save"
            /\ UNCHANGED <<monitor_lock, loop_completed, tick_start>>
       ELSE /\ loop_pc' = "sleep"
            /\ loop_completed' = <<>>
            /\ monitor_lock' = "free"
            /\ tick_start' = None
            /\ UNCHANGED db_lock
    /\ UNCHANGED <<calcVars, ledgerVars, envVars, monitorVars, handlerVars, dbVars>>

\* One iteration of `for session in completed_sessions`; io_ok tells whether
\* the storage accepts the write. An Err is logged and changes nothing else.
LoopSave(io_ok) ==
    /\ loop_pc = "save"
    /\ loop_completed # <<>>
    /\ db_sessions' = save_session(db_sessions, Head(loop_completed), io_ok).table
    /\ save_calls' = Append(save_calls, Head(loop_completed))
    /\ loop_completed' = Tail(loop_completed)
    /\ UNCHANGED <<calcVars, ledgerVars, envVars, monitorVars, lockVars, loop_pc, tick_start, handlerVars>>

\* The guards are dropped at the end of the tick.
LoopEndTick ==
    /\ loop_pc = "save"
    /\ loop_completed = <<>>
    /\ loop_pc' = "sleep"
    /\ monitor_lock' = "free"
    /\ db_lock' = "free"
    /\ tick_start' = None
    /\ UNCHANGED <<calcVars, ledgerVars, envVars, monitorVars, loop_completed, handlerVars, dbVars>>

\* --------------------------------------------------------- command handlers
\* A command is invoked and its first lock() returns.
HInvoke(cmd) ==
    /\ h_pc = "idle"
    /\ h_cmd' = cmd
    /\ IF NeedsDb(cmd)
       THEN /\ db_lock = "free"
            /\ db_lock' = "handler"
            /\ h_pc' = IF NeedsMonitor(cmd) THEN "lock_monitor" ELSE "run"
            /\ UNCHANGED monitor_lock
       ELSE /\ monitor_lock = "free"
            /\ monitor_lock' = "handler"
            /\ h_pc' = "run"
            /\ UNCHANGED db_lock
    /\ UNCHANGED <<calcVars, ledgerVars, envVars, monitorVars, loopVars, dbVars>>

\* state.monitor.lock() of a handler that holds the db lock.
HLockMonitor ==
    /\ h_pc = "lock_monitor"
    /\ monitor_lock = "free"
    /\ monitor_lock' = "handler"
    /\ h_pc' = "run"
    /\ UNCHANGED <<calcVars, ledgerVars, envVars, monitorVars, db_lock, loopVars, h_cmd, dbVars>>

\* The handler returns and its guards are dropped.
HReturn ==
    /\ h_pc' = "idle"
    /\ h_cmd' = "none"
    /\ monitor_lock' = IF monitor_lock = "handler" THEN "free" ELSE monitor_lock
    /\ db_lock' = IF db_lock = "handler" THEN "free" ELSE db_lock

pause_monitoring ==
    /\ h_pc = "run" /\ h_cmd = "pause_monitoring"
    /\ is_paused' = TRUE
    /\ HReturn
    /\ UNCHANGED <<calcVars, ledgerVars, envVars, active_sessions, completed_sessions, known_games,
                   next_id, loopVars, dbVars>>

resume_monitoring ==
    /\ h_pc = "run" /\ h_cmd = "resume_monitoring"
    /\ is_paused' = FALSE
    /\ HReturn
    /\ UNCHANGED <<calcVars, ledgerVars, envVars, active_sessions, completed_sessions, known_games,
                   next_id, loopVars, dbVars>>

\* The status goes to the caller; the expired rollover rows are deleted.
get_realtime_budget_status ==
    /\ h_pc = "run" /\ h_cmd = "get_realtime_budget_status"
    /\ db_rollover' = get_rollover_minutes(db_rollover, now).table
    /\ HReturn
    /\ UNCHANGED <<calcVars, db_settings, db_learning, budget, envVars, monitorVars,
                   loopVars, dbVars>>

Next ==
    \/ Advance
    \/ \E p \in ProcUniverse : ProcStart(p)
    \/ \E p \in ProcUniverse : ProcExit(p)
    \/ LoopTick
    \/ LoopTickSkipped
    \/ LoopDrain
    \/ LoopTryLockDb
    \/ LoopSave(TRUE)
    \/ LoopEndTick
    \/ \E cmd \in Commands : HInvoke(cmd)
    \/ HLockMonitor
    \/ pause_monitoring
    \/ resume_monitoring
    \/ get_realtime_budget_status

\* The runs in which the storage accepts every write.
Spec == Init /\ [][Next]_vars

\* The runs in which a write of the loop may also fail.
NextStorageFailing == Next \/ LoopSave(FALSE)
SpecStorageFailing == Init /\ [][NextStorageFailing]_vars

\* The periods handed to the merger: start <= end, any concurrency hint.
Periods ==
    {<<s, e, c>> : s \in 0..MaxEndpoint, e \in 0..MaxEndpoint, c \in BOOLEAN}
PeriodLists ==
    UNION {[1..n -> {p \in Periods : p[1] <= p[2]}] : n \in 0..MaxPeriods}

MergeInit ==
    /\ ProgramInit
    /\ m_periods \in PeriodLists
    /\ m_result = None
    /\ NoCall

MergeCall ==
    /\ m_result = None
    /\ m_result' = Some(calculate_unique_time_periods(m_periods))
    /\ UNCHANGED <<envVars, monitorVars, lockVars, loopVars, handlerVars, dbVars,
                   ledgerVars, m_periods, call_args, call_result>>

MergeSpec == MergeInit /\ [][MergeCall]_vars

\* ------------------------------------------------------- the budget ledger
\* The commands and the storage operations that feed the budget, each run
\* from taking its locks to releasing them, next to the ticks of the driving
\* loop. `budget` is the reply of a budget query on its way to the caller: a
\* reply is fixed when the query returns and no other step reads it, so the
\* other steps are taken once it is delivered.
MaxClockMinutes == 100
MaxRows == 1
ClockSteps == {100}
ActivityTypes == {"exercise"}
ActivityMinutes == {60}
DebugMinutes == {20}
FakePlayMinutes == {30, 100}
RolloverDates == {"day-1", "day-2"}
RolloverMinutes == {10}
RolloverExpiries == {50 * TicksPerMinute, 100 * TicksPerMinute}
SettingValues == {"60", "abc"}

trackerVars == <<procs, monitorVars, lockVars, loopVars, handlerVars>>

ClockStep(minutes) ==
    /\ budget = None
    /\ loop_pc = "sleep"
    /\ now + minutes * TicksPerMinute <= MaxClockMinutes * TicksPerMinute
    /\ now' = now + minutes * TicksPerMinute
    /\ UNCHANGED <<calcVars, ledgerVars, trackerVars, dbVars>>

GameStarts(p) == budget = None /\ ProcStart(p)

GameExits(p) == budget = None /\ ProcExit(p)

RECURSIVE save_sessions(_, _)
save_sessions(table, sessions) ==
    IF sessions = <<>> THEN table
    ELSE save_sessions(save_session(table, Head(sessions), TRUE).table, Tail(sessions))

\* A tick of the driving loop that finds both locks free: update(), the
\* drain and the writes.
Tick ==
    /\ budget = None
    /\ loop_pc = "sleep" /\ monitor_lock = "free" /\ db_lock = "free"
    /\ \E scan \in Scans(procs) :
         LET u == update(active_sessions, completed_sessions, is_paused,
                         known_games, next_id, scan, now)
             g == get_completed_sessions(u.completed)
         IN  /\ active_sessions' = u.active
             /\ completed_sessions' = g.completed_sessions
             /\ next_id' = u.next_id
             /\ db_sessions' = save_sessions(db_sessions, g.returned)
             /\ save_calls' = save_calls \o g.returned
    /\ UNCHANGED <<calcVars, ledgerVars, envVars, is_paused, known_games, lockVars,
                   loopVars, handlerVars>>

Cmd_get_budget_status ==
    /\ budget = None
    /\ db_lock = "free"
    /\ ~today_usage_panics(db_sessions, now)
    /\ \E b \in get_budget_status(db_settings, db_sessions, db_learning, db_rollover, now) :
          budget' = Some(b)
    /\ db_rollover' = get_rollover_minutes(db_rollover, now).table
    /\ UNCHANGED <<calcVars, envVars, trackerVars, dbVars, db_settings, db_learning>>

Cmd_get_realtime_budget_status ==
    /\ budget = None
    /\ db_lock = "free" /\ monitor_lock = "free"
    /\ ~today_usage_panics(db_sessions, now)
    /\ \E b \in get_budget_status(db_settings, db_sessions, db_learning, db_rollover, now) :
          budget' = Some(add_active_time(b, active_sessions, now))
    /\ db_rollover' = get_rollover_minutes(db_rollover, now).table
    /\ UNCHANGED <<calcVars, envVars, trackerVars, dbVars, db_settings, db_learning>>

\* The caller has received the status.
ReplyDelivered ==
    /\ budget # None
    /\ budget' = None
    /\ UNCHANGED <<calcVars, envVars, trackerVars, dbVars, db_settings, db_learning,
                   db_rollover>>

Cmd_add_learning_activity(activity_type, duration_minutes) ==
    /\ budget = None
    /\ db_lock = "free"
    /\ Len(db_learning) < MaxRows
    /\ db_learning' = add_learning_activity(db_learning,
                          LearningActivity_new(activity_type, duration_minutes, now))
    /\ UNCHANGED <<calcVars, envVars, trackerVars, dbVars, db_settings, db_rollover, budget>>

Cmd_add_budget_minutes(minutes) ==
    /\ budget = None
    /\ db_lock = "free"
    /\ Len(db_learning) < MaxRows
    /\ db_learning' = add_learning_activity(db_learning, debug_earned_activity(minutes, now))
    /\ UNCHANGED <<calcVars, envVars, trackerVars, dbVars, db_settings, db_rollover, budget>>

Cmd_remove_budget_minutes(minutes) ==
    /\ budget = None
    /\ db_lock = "free"
    /\ Len(db_learning) < MaxRows
    /\ db_learning' = add_learning_activity(db_learning, debug_earned_activity(-minutes, now))
    /\ UNCHANGED <<calcVars, envVars, trackerVars, dbVars, db_settings, db_rollover, budget>>

Cmd_add_fake_playtime(minutes) ==
    /\ budget = None
    /\ db_lock = "free"
    /\ next_id <= MaxSessions
    /\ db_sessions' = save_session(db_sessions,
                                   fake_gaming_session(minutes, next_id, now), TRUE).table
    /\ next_id' = next_id + 1
    /\ UNCHANGED <<calcVars, ledgerVars, envVars, active_sessions, completed_sessions,
                   is_paused, known_games, lockVars, loopVars, handlerVars, save_calls>>

Cmd_reset_today_sessions ==
    /\ budget = None
    /\ db_lock = "free"
    /\ db_sessions' = reset_today_sessions(db_sessions, now)
    /\ UNCHANGED <<calcVars, ledgerVars, envVars, trackerVars, save_calls>>

Op_add_rollover(date, unused_minutes, expires_at) ==
    /\ budget = None
    /\ db_lock = "free"
    /\ db_rollover' = add_rollover(db_rollover, date, unused_minutes, expires_at)
    /\ UNCHANGED <<calcVars, envVars, trackerVars, dbVars, db_settings, db_learning, budget>>

Op_update_setting(key, value) ==
    /\ budget = None
    /\ db_lock = "free"
    /\ db_settings' = update_setting(db_settings, key, value)
    /\ UNCHANGED <<calcVars, envVars, trackerVars, dbVars, db_learning, db_rollover, budget>>

BudgetNext ==
    \/ \E m \in ClockSteps : ClockStep(m)
    \/ GameStarts(Minecraft)
    \/ GameExits(Minecraft)
    \/ Tick
    \/ Cmd_get_budget_status
    \/ Cmd_get_realtime_budget_status
    \/ ReplyDelivered
    \/ \E a \in ActivityTypes, d \in ActivityMinutes : Cmd_add_learning_activity(a, d)
    \/ \E m \in DebugMinutes : Cmd_add_budget_minutes(m)
    \/ \E m \in DebugMinutes : Cmd_remove_budget_minutes(m)
    \/ \E m \in FakePlayMinutes : Cmd_add_fake_playtime(m)
    \/ Cmd_reset_today_sessions
    \/ \E d \in RolloverDates, u \in RolloverMinutes, e \in RolloverExpiries :
          Op_add_rollover(d, u, e)
    \/ \E v \in SettingValues : Op_update_setting("daily_allowance_minutes", v)

BudgetSpec == Init /\ [][BudgetNext]_vars

\* ------------------------------------------------- faults of the storage
\* Result<BudgetStatus, String>: Ok(b) is Some(b), Err(e) the pair below.
Err(e) == <<"Err", e>>
IsOk(reply) == Len(reply) = 1

\* The storage file is damaged from outside the program: the start_time
\* text of a stored row is no timestamp any more.
StoredStartTimeDamaged ==
    /\ budget = None
    /\ db_lock = "free"
    /\ \E r \in db_sessions :
          /\ ~unparseable_start_time(r)
          /\ db_sessions' = (db_sessions \ {r})
                               \cup {[start_time_text |-> "not-a-date"] @@ r}
    /\ UNCHANGED <<calcVars, ledgerVars, envVars, trackerVars, save_calls>>

\* get_budget_status / get_realtime_budget_status when a statement of
\* Database::get_budget_status returns an SqlResult error: `?` hands it to
\* the handler, which returns Err. after_delete tells whether the DELETE of
\* get_rollover_minutes ran before the failing statement.
Cmd_budget_query_read_fails(after_delete) ==
    /\ budget = None
    /\ db_lock = "free"
    /\ after_delete => ~today_usage_panics(db_sessions, now)
    /\ budget' = Err("sql")
    /\ db_rollover' = IF after_delete THEN get_rollover_minutes(db_rollover, now).table
                      ELSE db_rollover
    /\ UNCHANGED <<calcVars, envVars, trackerVars, dbVars, db_settings, db_learning>>

\* get_budget_status on a damaged row: the unwrap() panics while the handler
\* holds the guard of the db mutex, which poisons the mutex.
Cmd_get_budget_status_panics ==
    /\ budget = None
    /\ db_lock = "free"
    /\ today_usage_panics(db_sessions, now)
    /\ budget' = Err("panic")
    /\ db_lock' = "poisoned"
    /\ UNCHANGED <<calcVars, envVars, procs, monitorVars, monitor_lock, loopVars,
                   handlerVars, dbVars, db_settings, db_learning, db_rollover>>

\* The same in get_realtime_budget_status, which holds both guards.
Cmd_get_realtime_budget_status_panics ==
    /\ budget = None
    /\ db_lock = "free" /\ monitor_lock = "free"
    /\ today_usage_panics(db_sessions, now)
    /\ budget' = Err("panic")
    /\ db_lock' = "poisoned"
    /\ monitor_lock' = "poisoned"
    /\ UNCHANGED <<calcVars, envVars, procs, monitorVars, loopVars,
                   handlerVars, dbVars, db_settings, db_learning, db_rollover>>

\* A budget query on a poisoned db mutex: lock() returns Err.
Cmd_budget_query_lock_fails ==
    /\ budget = None
    /\ db_lock = "poisoned"
    /\ budget' = Err("poisoned")
    /\ UNCHANGED <<calcVars, envVars, trackerVars, dbVars, db_settings, db_learning,
                   db_rollover>>

\* A tick that gets the tracker but not the db mutex: update() and the drain
\* run, the drained sessions are dropped.
TickWithoutDb ==
    /\ budget = None
    /\ loop_pc = "sleep" /\ monitor_lock = "free" /\ db_lock # "free"
    /\ \E scan \in Scans(procs) :
         LET u == update(active_sessions, completed_sessions, is_paused,
                         known_games, next_id, scan, now)
             g == get_completed_sessions(u.completed)
         IN  /\ active_sessions' = u.active
             /\ completed_sessions' = g.completed_sessions
             /\ next_id' = u.next_id
    /\ UNCHANGED <<calcVars, ledgerVars, envVars, is_paused, known_games, lockVars,
                   loopVars, handlerVars, dbVars>>

\* The queries over the table of sessions, with the faults.
BudgetNextFaulty ==
    \/ \E m \in ClockSteps : ClockStep(m)
    \/ GameStarts(Minecraft)
    \/ GameExits(Minecraft)
    \/ Tick
    \/ Cmd_get_budget_status
    \/ Cmd_get_realtime_budget_status
    \/ ReplyDelivered
    \/ \E m \in FakePlayMinutes : Cmd_add_fake_playtime(m)
    \/ Cmd_reset_today_sessions
    \/ StoredStartTimeDamaged
    \/ \E after_delete \in BOOLEAN : Cmd_budget_query_read_fails(after_delete)
    \/ Cmd_get_budget_status_panics
    \/ Cmd_get_realtime_budget_status_panics
    \/ Cmd_budget_query_lock_fails
    \/ TickWithoutDb

\* The runs in which reads of the storage may fail and stored rows may be
\* damaged.
BudgetSpecFaulty == Init /\ [][BudgetNextFaulty]_vars

\* ------------------------------------------------------------ get_settings
\* The texts that a row of `settings` may hold, and the tables: any key may
\* be missing (a file edited outside the program) and hold any of the texts
\* (update_setting takes any &str).
SettingTexts == {"120", "60", "3", "15", "abc", "true", "false", "TRUE"}
SettingsTables == UNION {[K -> SettingTexts] : K \in SUBSET (DOMAIN default_settings)}

SettingsInit ==
    /\ TrackerInit
    /\ db_sessions = {} /\ save_calls = <<>>
    /\ db_settings \in SettingsTables
    /\ db_learning = <<>> /\ db_rollover = {} /\ budget = None
    /\ m_periods = <<>> /\ m_result = None
    /\ NoCall

Call_get_settings ==
    /\ call_result = None
    /\ call_result' = Some(get_settings(db_settings))
    /\ UNCHANGED <<envVars, trackerVars, dbVars, ledgerVars, m_periods, m_result, call_args>>

SettingsSpec == SettingsInit /\ [][Call_get_settings]_vars

\* ------------------------------------------------------ rollover entries
\* The budget queries over rollover entries that expire within fractions of
\* a second of the query.
RolloverNext ==
    \/ Advance
    \/ \E d \in RolloverDates, u \in RolloverMinutes, e \in 0..MaxEndpoint :
          Op_add_rollover(d, u, e)
    \/ Cmd_get_budget_status
    \/ Cmd_get_realtime_budget_status
    \/ ReplyDelivered

RolloverSpec == Init /\ [][RolloverNext]_vars

\* ---------------------------------------------------- LearningActivity::new
\* The activity types and durations handed to LearningActivity::new: the
\* command takes any String and any i32.
EarnedTypes == {"coding", "reading", "course", "exercise", "unknown"}
EarnedDurations == (-13..13) \cup {60, 100}

EarnedInit ==
    /\ ProgramInit
    /\ m_periods = <<>> /\ m_result = None
    /\ call_args \in {Some(<<a, d>>) : a \in EarnedTypes, d \in EarnedDurations}
    /\ call_result = None

Call_LearningActivity_new ==
    /\ call_result = None
    /\ call_result' = Some(LearningActivity_new(Unwrap(call_args)[1], Unwrap(call_args)[2],
                                                now).earned_gaming_minutes)
    /\ UNCHANGED <<envVars, trackerVars, dbVars, ledgerVars, m_periods, m_result, call_args>>

EarnedSpec == EarnedInit /\ [][Advance \/ Call_LearningActivity_new]_vars

\* ---------------------------------------------------- get_total_active_time
\* The get_total_active_time command, once, next to the ticks of the loop;
\* call_args keeps the Active sessions and the instant that the call read.
Cmd_get_total_active_time ==
    /\ call_result = None
    /\ monitor_lock = "free"
    /\ call_args' = Some(<<active_sessions, now>>)
    /\ call_result' = Some(get_total_active_time(active_sessions, now))
    /\ UNCHANGED <<envVars, trackerVars, dbVars, ledgerVars, m_periods, m_result>>

ActiveTimeNext ==
    \/ Advance
    \/ \E p \in {Minecraft, MyGame} : GameStarts(p)
    \/ \E p \in {Minecraft, MyGame} : GameExits(p)
    \/ Tick
    \/ Cmd_get_total_active_time

ActiveTimeSpec == Init /\ [][ActiveTimeNext]_vars

\* ----------------------------------------------------------------- add_game
\* GameMonitor::add_game, which no command calls, next to the driving loop.
AddedNames == {"steam.exe", "my_game.exe"}

add_game(known, process_name, display_name) ==
    [n \in DOMAIN known \cup {process_name} |->
        IF n = process_name THEN display_name ELSE known[n]]

Op_add_game(process_name, display_name) ==
    /\ monitor_lock = "free"
    /\ known_games' = add_game(known_games, process_name, display_name)
    /\ UNCHANGED <<calcVars, ledgerVars, envVars, active_sessions, completed_sessions,
                   is_paused, next_id, lockVars, loopVars, handlerVars, dbVars>>

ExclusionNext ==
    \/ Advance
    \/ \E p \in ProcUniverse : ProcStart(p)
    \/ \E p \in ProcUniverse : ProcExit(p)
    \/ LoopTick
    \/ LoopDrain
    \/ LoopTryLockDb
    \/ LoopSave(TRUE)
    \/ LoopEndTick
    \/ \E n \in AddedNames : Op_add_game(n, "Added Game")

ExclusionSpec == Init /\ [][ExclusionNext]_vars

\* ------------------------------------------------------------ timed passes
\* The driving loop alone, one pass per interval of one second: the clock
\* reads one second more at every pass, and each pass finds both locks free.
MaxPasses == 4
MaxTracked == 4

Launch(p) ==
    /\ loop_pc = "sleep"
    /\ ProcCount(procs) < MaxProcs
    /\ LET pt == [procs EXCEPT ![p] = @ + 1]
       IN  /\ (next_id - 1) + Cardinality(PendingNames(pt, known_games, active_sessions))
                 <= MaxTracked
           /\ procs' = pt
    /\ UNCHANGED <<calcVars, ledgerVars, now, monitorVars, lockVars, loopVars, handlerVars, dbVars>>

TimedTick ==
    /\ loop_pc = "sleep" /\ monitor_lock = "free" /\ db_lock = "free"
    /\ now + TicksPerSecond <= MaxPasses * TicksPerSecond
    /\ now' = now + TicksPerSecond
    /\ \E scan \in Scans(procs) :
         LET u == update(active_sessions, completed_sessions, is_paused,
                         known_games, next_id, scan, now')
             g == get_completed_sessions(u.completed)
         IN  /\ active_sessions' = u.active
             /\ completed_sessions' = g.completed_sessions
             /\ next_id' = u.next_id
             /\ db_sessions' = save_sessions(db_sessions, g.returned)
             /\ save_calls' = save_calls \o g.returned
    /\ UNCHANGED <<calcVars, ledgerVars, procs, is_paused, known_games, lockVars,
                   loopVars, handlerVars>>

ReconcileNext ==
    \/ \E p \in ProcUniverse : Launch(p)
    \/ \E p \in ProcUniverse : ProcExit(p)
    \/ TimedTick

ReconcileSpec == Init /\ [][ReconcileNext]_vars

\* ------------------------------------------------------- waiting handlers
\* The loop next to a command whose lock() calls are steps of their own: the
\* command is invoked, waits for its first lock, and a command that takes
\* both locks then waits for the tracker lock.
HRequest(cmd) ==
    /\ h_pc = "idle"
    /\ h_cmd' = cmd
    /\ h_pc' = "lock_first"
    /\ UNCHANGED <<calcVars, ledgerVars, envVars, monitorVars, lockVars, loopVars, dbVars>>

HLockFirst ==
    /\ h_pc = "lock_first"
    /\ IF NeedsDb(h_cmd)
       THEN /\ db_lock = "free"
            /\ db_lock' = "handler"
            /\ h_pc' = IF NeedsMonitor(h_cmd) THEN "lock_monitor" ELSE "run"
            /\ UNCHANGED monitor_lock
       ELSE /\ monitor_lock = "free"
            /\ monitor_lock' = "handler"
            /\ h_pc' = "run"
            /\ UNCHANGED db_lock
    /\ UNCHANGED <<calcVars, ledgerVars, envVars, monitorVars, loopVars, h_cmd, dbVars>>

LoopStep == LoopDrain \/ LoopTryLockDb \/ LoopSave(TRUE) \/ LoopEndTick

HandlerBody == pause_monitoring \/ resume_monitoring \/ get_realtime_budget_status

LockNext ==
    \/ Advance
    \/ \E p \in {Minecraft, MyGame} : ProcStart(p)
    \/ \E p \in {Minecraft, MyGame} : ProcExit(p)
    \/ LoopTick
    \/ LoopTickSkipped
    \/ LoopStep
    \/ \E cmd \in Commands : HRequest(cmd)
    \/ HLockFirst
    \/ HLockMonitor
    \/ HandlerBody

\* A step of the loop's body takes no waiting, and neither does the body of a
\* command. A lock() that waits returns once the lock is free while it waits:
\* the loop holds no lock between two ticks, one second apart.
LockFairness ==
    /\ WF_vars(LoopStep)
    /\ WF_vars(HandlerBody)
    /\ SF_vars(HLockFirst)
    /\ SF_vars(HLockMonitor)

LockSpec == Init /\ [][LockNext]_vars /\ LockFairness

\* ------------------------------------------------- get_today_usage_minutes
\* get_today_usage_minutes over stored sessions around a local midnight. The
\* rows are sessions that save_session has written: sessions of the tracker,
\* ended at whole and at half seconds, and fake sessions of the debug command,
\* whose minutes may be negative; one row has no end.
SecondMidnight == SecondsPerDay * TicksPerSecond

RowAt(id, start_s, end_s) ==
    end_session(GameSession_new("Minecraft", "minecraft.exe", id,
                                SecondMidnight + start_s),
                SecondMidnight + end_s)

StoredRows ==
    {RowAt(1, -90 * TicksPerSecond, 90 * TicksPerSecond),
     RowAt(2, 0, 90 * TicksPerSecond),
     RowAt(3, 30 * TicksPerSecond, 60 * TicksPerSecond),
     RowAt(4, 60 * TicksPerSecond + 1, 150 * TicksPerSecond),
     GameSession_new("My Game", "my_game.exe", 5, SecondMidnight + 30 * TicksPerSecond),
     fake_gaming_session(1, 6, SecondMidnight + 240 * TicksPerSecond),
     fake_gaming_session(-1, 7, SecondMidnight + 120 * TicksPerSecond)}

UsageClock == {SecondMidnight + 300 * TicksPerSecond,
               2 * SecondMidnight + 10 * TicksPerSecond}

UsageInit ==
    /\ now \in UsageClock
    /\ procs = [p \in ProcUniverse |-> 0]
    /\ active_sessions = <<>> /\ completed_sessions = <<>>
    /\ is_paused = FALSE /\ known_games = InitialKnownGames /\ next_id = 8
    /\ monitor_lock = "free" /\ db_lock = "free"
    /\ loop_pc = "sleep" /\ loop_completed = <<>> /\ tick_start = None
    /\ h_pc = "idle" /\ h_cmd = "none"
    /\ db_sessions \in SUBSET StoredRows
    /\ save_calls = <<>>
    /\ db_settings = default_settings
    /\ db_learning = <<>> /\ db_rollover = {} /\ budget = None
    /\ m_periods = <<>> /\ m_result = None
    /\ NoCall

Call_get_today_usage_minutes ==
    /\ call_result = None
    /\ db_lock = "free"
    /\ \E used \in get_today_usage_minutes(db_sessions, now) : call_result' = Some(used)
    /\ UNCHANGED <<envVars, trackerVars, dbVars, ledgerVars, m_periods, m_result, call_args>>

UsageSpec == UsageInit /\ [][Call_get_today_usage_minutes]_vars

\* ------------------------------------------------------------- add_rollover
\* add_rollover called again for dates that have an entry, next to the
\* budget queries. call_args keeps the table and the arguments of the last call.
UpsertMinutes == {10, 25}
UpsertExpiries == {2, 4}

Call_add_rollover(date, unused_minutes, expires_at) ==
    /\ budget = None
    /\ db_lock = "free"
    /\ db_rollover' = add_rollover(db_rollover, date, unused_minutes, expires_at)
    /\ call_args' = Some(<<db_rollover, date, unused_minutes, expires_at>>)
    /\ UNCHANGED <<envVars, trackerVars, dbVars, db_settings, db_learning, budget,
                   m_periods, m_result, call_result>>

UpsertNext ==
    \/ Advance
    \/ \E d \in RolloverDates, u \in UpsertMinutes, e \in UpsertExpiries :
          Call_add_rollover(d, u, e)
    \/ Cmd_get_budget_status
    \/ Cmd_get_realtime_budget_status
    \/ ReplyDelivered

UpsertSpec == Init /\ [][UpsertNext]_vars

\* ------------------------------------------------------ pause and resume
\* Timed passes next to pause and resume, with the processes exiting while
\* the tracker is paused and get_total_active_time called during the pause
\* for a tracker that holds a session of a process that is gone.
Cmd_pause_monitoring ==
    /\ monitor_lock = "free"
    /\ ~is_paused
    /\ is_paused' = TRUE
    /\ UNCHANGED <<calcVars, ledgerVars, envVars, active_sessions, completed_sessions,
                   known_games, next_id, lockVars, loopVars, handlerVars, dbVars>>

Cmd_resume_monitoring ==
    /\ monitor_lock = "free"
    /\ is_paused
    /\ is_paused' = FALSE
    /\ UNCHANGED <<calcVars, ledgerVars, envVars, active_sessions, completed_sessions,
                   known_games, next_id, lockVars, loopVars, handlerVars, dbVars>>

ExitWhilePaused(p) == is_paused /\ ProcExit(p)

GoneWhileActive ==
    \E i \in DOMAIN active_sessions :
        \A p \in ProcUniverse : p.name = active_sessions[i].process_name => procs[p] = 0

Cmd_get_total_active_time_in_pause ==
    /\ is_paused
    /\ GoneWhileActive
    /\ Cmd_get_total_active_time

PauseNext ==
    \/ \E p \in {Minecraft, MyGame} : Launch(p)
    \/ \E p \in {Minecraft, MyGame} : ExitWhilePaused(p)
    \/ TimedTick
    \/ Cmd_pause_monitoring
    \/ Cmd_resume_monitoring
    \/ Cmd_get_total_active_time_in_pause

PauseSpec == Init /\ [][PauseNext]_vars

\* =================================================================== claims
Ids(sessions) == {sessions[i].id : i \in DOMAIN sessions}

\* Names of the running processes that the classifier marks as monitored.
MonitoredNames(pt, known) ==
    {p.name : p \in {q \in ProcUniverse : pt[q] > 0 /\ classify(known, q) # <<>>}}

\* A step of the loop that runs update() while the tracker is not paused.
ReconcileStep == loop_pc = "sleep" /\ loop_pc' = "drain" /\ ~is_paused

\* C1: the tracker never holds two Active sessions with the same process name.
C1_OneActivePerProcessName ==
    \A i, j \in DOMAIN active_sessions :
        i # j => active_sessions[i].process_name # active_sessions[j].process_name

\* C1 witness: an update that saw minecraft.exe twice has just opened one
\* session for it.
C1_Witness ==
    /\ loop_pc = "drain"
    /\ procs[Minecraft] = 2
    /\ Unwrap(tick_start).active = <<>>
    /\ Len(active_sessions) = 1
    /\ active_sessions[1].process_name = "minecraft.exe"

\* C2: in a pass in which a session ends while at least one other session was
\* Active, every ending session is flagged concurrent and its concurrent ids
\* are the ids of all the other sessions Active at the start of the pass.
C2_EndingSessionsLinkAllOthers ==
    [][ReconcileStep =>
        LET running == MonitoredNames(procs, known_games)
            ending  == {i \in DOMAIN active_sessions :
                           active_sessions[i].process_name \notin running}
            staying == DOMAIN active_sessions \ ending
        IN  (ending # {} /\ (staying # {} \/ Cardinality(ending) > 1)) =>
                \A i \in ending : \E k \in DOMAIN completed_sessions' :
                    LET c == completed_sessions'[k]
                    IN  /\ c.id = active_sessions[i].id
                        /\ c.is_concurrent
                        /\ Range(c.concurrent_session_ids)
                             = Ids(active_sessions) \ {c.id}]_vars

\* C3: a tick on which the persistence lock is held elsewhere does none of the
\* tick's work: the Active set and the completed queue are as they were when the
\* tick began and no drained session goes out of scope unsaved.
C3_ContendedTickDoesNoWork ==
    [][(loop_pc = "try_db" /\ loop_pc' = "sleep") =>
        /\ active_sessions' = Unwrap(tick_start).active
        /\ completed_sessions' = Unwrap(tick_start).completed
        /\ loop_completed = <<>>]_vars

SessionWellFormed(s) ==
    /\ IsSome(s.duration_seconds) <=> IsSome(s.end_time)
    /\ IsSome(s.end_time) =>
          Unwrap(s.duration_seconds) = num_seconds(Unwrap(s.end_time) - s.start_time)

FakeMinutes == {-1, 0, 1, 2}

\* C4: duration is present iff the end time is, and is then end - start in
\* whole seconds; Active sessions have neither, sessions of the completed
\* queue and sessions handed to save_session have both.
C4_DurationIffEnd ==
    /\ \A i \in DOMAIN active_sessions :
          /\ SessionWellFormed(active_sessions[i])
          /\ active_sessions[i].end_time = None
          /\ active_sessions[i].duration_seconds = None
    /\ \A s \in Range(completed_sessions) \cup Range(loop_completed) \cup Range(save_calls) :
          /\ SessionWellFormed(s)
          /\ IsSome(s.end_time)
          /\ IsSome(s.duration_seconds)
    /\ \A minutes \in FakeMinutes :
          SessionWellFormed(fake_gaming_session(minutes, next_id, now))

\* C4 witness: a session of the completed queue that ran for a fraction of a
\* second next to a session that is still Active.
C4_Witness ==
    /\ active_sessions # <<>>
    /\ \E i \in DOMAIN completed_sessions :
          /\ Unwrap(completed_sessions[i].end_time) > completed_sessions[i].start_time
          /\ Unwrap(completed_sessions[i].duration_seconds) = 0

\* C5: P is Active, Q got its session while P was Active, and a pass sees Q but
\* not P: P is moved to the completed queue flagged concurrent with Q's id among
\* its concurrent ids, and Q stays Active flagged concurrent.
C5_FirstOfTwoEnds ==
    [][ReconcileStep =>
        LET running == MonitoredNames(procs, known_games)
        IN  \A i, j \in DOMAIN active_sessions :
              LET P == active_sessions[i]
                  Q == active_sessions[j]
              IN  (P.id < Q.id /\ P.process_name \notin running
                               /\ Q.process_name \in running) =>
                    /\ P.id \notin Ids(active_sessions')
                    /\ \E k \in DOMAIN completed_sessions' :
                          /\ completed_sessions'[k].id = P.id
                          /\ IsSome(completed_sessions'[k].end_time)
                          /\ completed_sessions'[k].is_concurrent
                          /\ Q.id \in Range(completed_sessions'[k].concurrent_session_ids)
                    /\ \E k \in DOMAIN active_sessions' :
                          /\ active_sessions'[k].id = Q.id
                          /\ active_sessions'[k].is_concurrent]_vars

\* C5 witness: P, started before Q, has just ended linked to Q, which is Active.
C5_Witness ==
    /\ loop_pc = "drain"
    /\ \E k \in DOMAIN completed_sessions, j \in DOMAIN active_sessions :
          /\ completed_sessions[k].start_time < active_sessions[j].start_time
          /\ active_sessions[j].start_time < Unwrap(completed_sessions[k].end_time)
          /\ completed_sessions[k].is_concurrent
          /\ active_sessions[j].id \in Range(completed_sessions[k].concurrent_session_ids)
          /\ active_sessions[j].is_concurrent

NoDuplicates(seq) == \A i, j \in DOMAIN seq : i # j => seq[i].id # seq[j].id

\* C6: the drain returns the whole queue and empties it; the queue holds
\* exactly the sessions ended since the previous drain; no session id is
\* handed to save_session twice.
C6_DrainHandsOverOnce ==
    /\ [](loop_pc # "drain" => completed_sessions = <<>>)
    /\ [](/\ NoDuplicates(save_calls)
          /\ NoDuplicates(loop_completed)
          /\ Ids(save_calls) \cap Ids(loop_completed) = {}
          /\ Ids(save_calls) \cap Ids(completed_sessions) = {}
          /\ Ids(loop_completed) \cap Ids(completed_sessions) = {})
    /\ [][(loop_pc = "sleep" /\ loop_pc' = "drain") =>
              /\ NoDuplicates(completed_sessions')
              /\ Ids(completed_sessions') = Ids(active_sessions) \ Ids(active_sessions')]_vars
    /\ [][(loop_pc = "drain" /\ loop_pc' = "try_db") =>
              /\ loop_completed' = completed_sessions
              /\ completed_sessions' = <<>>]_vars

\* C6 witness: a drain has returned a session after an earlier one was handed
\* to save_session.
C6_Witness ==
    /\ loop_pc = "try_db"
    /\ loop_completed # <<>>
    /\ save_calls # <<>>

\* Clock ticks covered by the union of the periods.
UnionTicks(periods) ==
    Cardinality({t \in 0..MaxEndpoint :
                    \E i \in DOMAIN periods : periods[i][1] <= t /\ t < periods[i][2]})

RECURSIVE SumOfDurations(_)
SumOfDurations(periods) ==
    IF periods = <<>> THEN 0
    ELSE num_seconds(Head(periods)[2] - Head(periods)[1]) + SumOfDurations(Tail(periods))

PairwiseDisjoint(periods) ==
    \A i, j \in DOMAIN periods :
        i # j => ~\E t \in 0..MaxEndpoint :
                    /\ periods[i][1] <= t /\ t < periods[i][2]
                    /\ periods[j][1] <= t /\ t < periods[j][2]

\* No interval occurs twice in the list.
DistinctPeriods(periods) ==
    \A i, j \in DOMAIN periods :
        i # j => <<periods[i][1], periods[i][2]>> # <<periods[j][1], periods[j][2]>>

InsertAt(seq, k, x) == SubSeq(seq, 1, k) \o <<x>> \o SubSeq(seq, k + 1, Len(seq))

\* C7: for periods with start <= end the merger returns the seconds covered
\* by their union, whatever the hints.
C7_MergerReturnsUnionSeconds ==
    IsSome(m_result) => Unwrap(m_result) = num_seconds(UnionTicks(m_periods))

\* C8: for distinct periods the merger's result is at most the sum of the
\* periods' durations, and equals it iff no two periods share a point of time.
C8_AtMostSumEqualIffDisjoint ==
    (IsSome(m_result) /\ DistinctPeriods(m_periods)) =>
        /\ Unwrap(m_result) <= SumOfDurations(m_periods)
        /\ (Unwrap(m_result) = SumOfDurations(m_periods)) <=> PairwiseDisjoint(m_periods)

\* C9: a period nested in one of the periods, added at any place of the input,
\* leaves the merger's result unchanged.
C9_NestedPeriodAddsNothing ==
    IsSome(m_result) =>
        \A n \in Periods :
            (n[1] <= n[2] /\ \E i \in DOMAIN m_periods :
                                m_periods[i][1] <= n[1] /\ n[2] <= m_periods[i][2]) =>
                \A k \in 0..Len(m_periods) :
                    calculate_unique_time_periods(InsertAt(m_periods, k, n))
                        = Unwrap(m_result)

\* The three statements above on periods whose endpoints are whole seconds.
WholeSeconds(periods) ==
    \A i \in DOMAIN periods :
        periods[i][1] % TicksPerSecond = 0 /\ periods[i][2] % TicksPerSecond = 0
MergerOnWholeSeconds ==
    (IsSome(m_result) /\ WholeSeconds(m_periods)) =>
        /\ C7_MergerReturnsUnionSeconds
        /\ C8_AtMostSumEqualIffDisjoint
        /\ \A n \in Periods :
              (WholeSeconds(<<n>>) /\ n[1] <= n[2] /\ \E i \in DOMAIN m_periods :
                                m_periods[i][1] <= n[1] /\ n[2] <= m_periods[i][2]) =>
                \A k \in 0..Len(m_periods) :
                    calculate_unique_time_periods(InsertAt(m_periods, k, n))
                        = Unwrap(m_result)

\* C10: every status returned by a budget query has total_available =
\* daily_allowance + rollover + earned and remaining = max(0, total - used).
C10_StatusArithmetic ==
    IsSome(budget) =>
        LET b == Unwrap(budget)
        IN  /\ b.total_available_minutes
                  = b.daily_allowance_minutes + b.rollover_minutes + b.earned_minutes
            /\ b.remaining_today_minutes
                  = Max(0, b.total_available_minutes - b.used_today_minutes)

\* A query has returned allowance 120, rollover 10, earned 20, used 100.
C10_Witness ==
    budget = Some([daily_allowance_minutes |-> 120, used_today_minutes |-> 100,
                   remaining_today_minutes |-> 50, rollover_minutes |-> 10,
                   earned_minutes |-> 20, total_available_minutes |-> 150])

\* C11: the remaining minutes of every returned status are never negative,
\* whatever the allowance, the rollover, the earned minutes and the usage are.
C11_RemainingNeverNegative ==
    IsSome(budget) => Unwrap(budget).remaining_today_minutes >= 0

\* A status with negative earned minutes whose usage exceeds the total.
C11_Witness ==
    /\ IsSome(budget)
    /\ Unwrap(budget).earned_minutes < 0
    /\ Unwrap(budget).total_available_minutes < Unwrap(budget).used_today_minutes
    /\ Unwrap(budget).remaining_today_minutes = 0

\* The length, in ticks, of the union of a set of intervals <<start, end>>.
UnionLength(intervals) ==
    LET E == {i[1] : i \in intervals} \cup {i[2] : i \in intervals}
        covered == {e \in E : /\ \E x \in E : x > e
                              /\ \E i \in intervals : i[1] <= e /\ e < i[2]}
        after(e) == CHOOSE x \in E : x > e /\ \A y \in E : y > e => x <= y
        RECURSIVE Sum(_)
        Sum(S) == IF S = {} THEN 0
                  ELSE LET e == CHOOSE x \in S : TRUE
                       IN  (after(e) - e) + Sum(S \ {e})
    IN  Sum(covered)

\* Today's persisted session intervals and the window of the Active sessions.
TodaysIntervals ==
    {<<r.start_time, Unwrap(r.end_time)>> :
        r \in {x \in db_sessions : x.start_time >= today_start(now) /\ IsSome(x.end_time)}}
ActiveWindow ==
    IF active_sessions = <<>> THEN {}
    ELSE {<<CHOOSE s \in {active_sessions[i].start_time : i \in DOMAIN active_sessions} :
                \A i \in DOMAIN active_sessions : s <= active_sessions[i].start_time,
            now>>}

\* C12: the used minutes of a live-usage status never exceed the wall-clock
\* time covered by today's persisted sessions together with the window from
\* the earliest Active start to now.
C12_LiveUsageWithinWallClock ==
    [][Cmd_get_realtime_budget_status =>
          Unwrap(budget').used_today_minutes * TicksPerMinute
              <= UnionLength(TodaysIntervals \cup ActiveWindow)]_vars

\* C13: a budget query never fails its caller: every reply is a BudgetStatus,
\* also when a read fails or a stored timestamp is unparseable, and the
\* mutexes stay usable for the later queries and ticks.
C13_QueriesNeverFail ==
    /\ budget # None => IsOk(budget)
    /\ db_lock # "poisoned"
    /\ monitor_lock # "poisoned"

\* What a text stands for, read as a decimal number or as a boolean.
NumberTexts == {"120", "60", "3", "15"}
NumberOf(text) ==
    CASE text = "120" -> 120 [] text = "60" -> 60 [] text = "3" -> 3 [] text = "15" -> 15
BooleanTexts == {"true", "false"}

NumberSetting(table, key, default) ==
    IF key \in DOMAIN table /\ table[key] \in NumberTexts
    THEN NumberOf(table[key]) ELSE default
BooleanSetting(table, key, default) ==
    IF key \in DOMAIN table /\ table[key] \in BooleanTexts
    THEN table[key] = "true" ELSE default

\* C14: get_settings returns, for each of the four settings, the stored value
\* when it is well-formed and the default (120, 3, true, 15) when it is
\* absent or malformed.
C14_DefaultsWhenAbsentOrMalformed ==
    IsSome(call_result) =>
        Unwrap(call_result) =
            [daily_allowance_minutes |->
                NumberSetting(db_settings, "daily_allowance_minutes", 120),
             rollover_days |-> NumberSetting(db_settings, "rollover_days", 3),
             notifications_enabled |->
                BooleanSetting(db_settings, "notifications_enabled", TRUE),
             warning_threshold_minutes |->
                NumberSetting(db_settings, "warning_threshold_minutes", 15)]

\* The same with notifications_enabled left out.
NumericSettingsFallBack ==
    IsSome(call_result) =>
        /\ Unwrap(call_result).daily_allowance_minutes
              = NumberSetting(db_settings, "daily_allowance_minutes", 120)
        /\ Unwrap(call_result).rollover_days = NumberSetting(db_settings, "rollover_days", 3)
        /\ Unwrap(call_result).warning_threshold_minutes
              = NumberSetting(db_settings, "warning_threshold_minutes", 15)
        /\ ("notifications_enabled" \in DOMAIN db_settings
                /\ db_settings["notifications_enabled"] \in BooleanTexts)
              => Unwrap(call_result).notifications_enabled
                    = (db_settings["notifications_enabled"] = "true")
        /\ "notifications_enabled" \notin DOMAIN db_settings
              => Unwrap(call_result).notifications_enabled

\* The instant that a stored timestamp text was written for.
InstantOf(text) ==
    CHOOSE t \in (text[1] * TicksPerSecond)..(text[1] * TicksPerSecond + TicksPerSecond - 1) :
        to_rfc3339(t) = text

RECURSIVE SumUnused(_)
SumUnused(rows) ==
    IF rows = {} THEN 0
    ELSE LET r == CHOOSE x \in rows : TRUE
         IN  r.unused_minutes + SumUnused(rows \ {r})

BudgetQueryStep == Cmd_get_budget_status \/ Cmd_get_realtime_budget_status

\* C15: after a budget query at instant now no entry that expired before now
\* is stored, every entry with expiry >= now is stored unchanged, and
\* rollover_minutes is the sum of unused_minutes of the entries with expiry >= now.
C15_RolloverPrunedAndSummed ==
    [][BudgetQueryStep =>
        LET live == {r \in db_rollover : InstantOf(r.expires_at) >= now}
        IN  /\ db_rollover' = live
            /\ Unwrap(budget').rollover_minutes = SumUnused(live)]_vars

\* A query at an instant between two whole seconds has counted an entry that
\* expires exactly at that instant, and no other entry is stored.
C15_Witness ==
    /\ IsSome(budget)
    /\ Unwrap(budget).rollover_minutes = 10
    /\ Cardinality(db_rollover) = 1
    /\ \A r \in db_rollover : r.date = "day-2" /\ InstantOf(r.expires_at) = now
    /\ now % TicksPerSecond # 0

\* The divisor that the earning rule names for an activity type.
Divisor(activity_type) ==
    CASE activity_type = "coding" -> 4
      [] activity_type = "reading" -> 6
      [] activity_type = "course" -> 4
      [] activity_type = "exercise" -> 3
      [] OTHER -> 5

EarnedExamples ==
    /\ call_args = Some(<<"coding", 60>>) => call_result \in {None, Some(15)}
    /\ call_args = Some(<<"reading", 60>>) => call_result \in {None, Some(10)}
    /\ call_args = Some(<<"exercise", 60>>) => call_result \in {None, Some(20)}
    /\ call_args = Some(<<"unknown", 100>>) => call_result \in {None, Some(20)}

\* C16: the earned minutes depend on (activity type, duration) alone and are
\* the floor of duration / divisor, for every integer duration.
C16_EarnedIsFloor ==
    /\ IsSome(call_result) =>
          Unwrap(call_result) = Unwrap(call_args)[2] \div Divisor(Unwrap(call_args)[1])
    /\ EarnedExamples

\* C16, amended: the earned minutes depend on (activity type, duration) alone
\* and are duration / divisor rounded toward zero: the floor for a duration
\* >= 0, the ceiling for a negative one.
C16_EarnedRoundsTowardZero ==
    /\ IsSome(call_result) =>
          LET d == Unwrap(call_args)[2]
              k == Divisor(Unwrap(call_args)[1])
              r == d - Unwrap(call_result) * k
          IN  /\ -k < r /\ r < k
              /\ d >= 0 => r >= 0
              /\ d < 0 => r <= 0
    /\ EarnedExamples

\* A negative duration that the divisor does not divide has been converted.
C16_Witness ==
    /\ call_args = Some(<<"coding", -1>>)
    /\ call_result = Some(0)

\* C17: pause and resume leave the Active sessions and the completed queue
\* unchanged, and an update() of a paused tracker leaves the whole tracker
\* unchanged, whatever the process snapshot is.
C17_PausedTrackerIsFrozen ==
    [][/\ (pause_monitoring \/ resume_monitoring) =>
            UNCHANGED <<active_sessions, completed_sessions>>
       /\ (LoopTick /\ is_paused) => UNCHANGED monitorVars]_vars

\* update() has run on a paused tracker while a tracked process was gone and
\* an untracked monitored process was running.
C17_Witness ==
    /\ is_paused /\ loop_pc = "drain"
    /\ \E i \in DOMAIN active_sessions :
          active_sessions[i].process_name \notin MonitoredNames(procs, known_games)
    /\ \E n \in MonitoredNames(procs, known_games) :
          \A i \in DOMAIN active_sessions : active_sessions[i].process_name # n

\* The whole seconds from the earliest of the given starts to instant t.
SecondsSinceEarliest(sessions, t) ==
    LET starts == {sessions[i].start_time : i \in DOMAIN sessions}
        earliest == CHOOSE s \in starts : \A x \in starts : s <= x
    IN  (t - earliest) \div TicksPerSecond

RECURSIVE SumOfElapsed(_, _)
SumOfElapsed(sessions, t) ==
    IF sessions = <<>> THEN 0
    ELSE (t - Head(sessions).start_time) \div TicksPerSecond + SumOfElapsed(Tail(sessions), t)

\* C18: get_total_active_time returns 0 when no session is Active and
\* otherwise the seconds from the earliest start among the sessions that are
\* Active at the call to now.
C18_ActiveTimeSinceEarliestStart ==
    IsSome(call_result) =>
        LET sessions == Unwrap(call_args)[1]
            t == Unwrap(call_args)[2]
        IN  Unwrap(call_result) =
                IF sessions = <<>> THEN 0 ELSE SecondsSinceEarliest(sessions, t)

\* A call after the earliest-starting session has ended and been saved: the
\* result counts from the start of the session that remains.
C18_Witness ==
    /\ IsSome(call_result)
    /\ Len(Unwrap(call_args)[1]) = 1
    /\ \E r \in db_sessions :
          /\ r.start_time < Unwrap(call_args)[1][1].start_time
          /\ Unwrap(r.end_time) <= Unwrap(call_args)[2]
          /\ (Unwrap(call_args)[2] - r.start_time) \div TicksPerSecond # Unwrap(call_result)

\* A reachable state: a call with two Active sessions whose elapsed times add
\* up to something else than the result.
ActiveTimeIsNoSum ==
    /\ IsSome(call_result)
    /\ Len(Unwrap(call_args)[1]) = 2
    /\ SumOfElapsed(Unwrap(call_args)[1], Unwrap(call_args)[2]) # Unwrap(call_result)

\* Every session that the tracker holds, has queued or has handed to the storage.
AllSessions ==
    Range(active_sessions) \cup Range(completed_sessions) \cup Range(loop_completed)
        \cup Range(save_calls) \cup db_sessions

\* C19: a process whose name is on the exclusion list is never classified as
\* monitored and never gets a session, also when the name is in the table of
\* known games and when its path holds the game-library marker.
C19_ExcludedNeverMonitored ==
    /\ \A p \in ProcUniverse :
          p.name \in blacklisted_processes => classify(known_games, p) = <<>>
    /\ \A s \in AllSessions : s.process_name \notin blacklisted_processes

\* update() has just run while steam.exe, re-registered by add_game and with
\* the marker in its path, was running.
C19_Witness ==
    /\ loop_pc = "drain" /\ ~is_paused
    /\ procs[SteamExe] > 0
    /\ SteamExe.steamapps
    /\ known_games["steam.exe"] = "Added Game"

\* The sessions handed to save_session whose write failed.
UnsavedCalls == {k \in DOMAIN save_calls : save_calls[k] \notin db_sessions}

\* C20: a failing save_session is only logged. The record is not stored and
\* is passed to save_session once only, it is in no queue afterwards, the
\* sessions drained with it are still passed to save_session before the tick
\* ends, and the loop goes on to the end of the tick with its guards held.
C20_FailedSaveIsDropped ==
    /\ [](\A j, k \in DOMAIN save_calls : save_calls[j].id = save_calls[k].id => j = k)
    /\ [](\A k \in DOMAIN save_calls :
             save_calls[k].id \notin
                 Ids(active_sessions) \cup Ids(completed_sessions) \cup Ids(loop_completed))
    /\ [][LoopSave(FALSE) =>
             /\ db_sessions' = db_sessions
             /\ completed_sessions' = completed_sessions
             /\ loop_completed' = Tail(loop_completed)
             /\ loop_pc' = "save"
             /\ monitor_lock' = "loop" /\ db_lock' = "loop"]_vars
    /\ [][(loop_pc = "save" /\ loop_pc' # "save") =>
             /\ loop_completed = <<>>
             /\ loop_pc' = "sleep"
             /\ monitor_lock' = "free" /\ db_lock' = "free"]_vars

\* Two sessions were drained in one tick, the write of the first failed, the
\* second was stored, and the loop is waiting for its next tick.
C20_Witness ==
    /\ Len(save_calls) = 2
    /\ UnsavedCalls = {1}
    /\ save_calls[1].end_time = save_calls[2].end_time
    /\ loop_pc = "sleep"
    /\ monitor_lock = "free" /\ db_lock = "free"

\* Sessions of the Active set before a pass whose process the pass still sees.
Survivors ==
    {i \in DOMAIN active_sessions :
        active_sessions[i].process_name \in MonitoredNames(procs, known_games)}

\* Sessions that the pass creates.
Created == {j \in DOMAIN active_sessions' :
               active_sessions'[j].id \notin Ids(active_sessions)}

\* Ids of the sessions Active at the moment the pass creates session n.
ActiveAtCreation(n) ==
    {active_sessions[i].id : i \in Survivors}
        \cup {active_sessions'[j].id : j \in {k \in Created : active_sessions'[k].id < n.id}}

Prefix(s, k) == [i \in 1..k |-> s[i]]

\* C21: a session created while other sessions are Active is flagged
\* concurrent and starts with the ids of the sessions Active at that moment;
\* every session already Active is flagged too and has the new id appended
\* to the ids it had. A session created while none is Active starts unflagged
\* with no ids.
C21_CreationLinksBothWays ==
    [][(now' # now) =>
        /\ \A j \in Created :
              LET n == active_sessions'[j]
                  before == ActiveAtCreation(n)
                  after == {active_sessions'[k].id : k \in Created} \ (before \cup {n.id})
              IN  /\ Len(n.concurrent_session_ids) = Cardinality(before) + Cardinality(after)
                  /\ Range(Prefix(n.concurrent_session_ids, Cardinality(before))) = before
                  /\ Range(n.concurrent_session_ids) = before \cup after
                  /\ n.is_concurrent <=> (before \cup after # {})
                  /\ (before = {} /\ after = {}) =>
                        (~n.is_concurrent /\ n.concurrent_session_ids = <<>>)
        /\ \A i \in Survivors :
              \E j \in DOMAIN active_sessions' :
                 LET old == active_sessions[i]
                     new == active_sessions'[j]
                     added == {active_sessions'[k].id : k \in Created}
                 IN  /\ new.id = old.id
                     /\ Len(new.concurrent_session_ids)
                           = Len(old.concurrent_session_ids) + Cardinality(added)
                     /\ Prefix(new.concurrent_session_ids, Len(old.concurrent_session_ids))
                           = old.concurrent_session_ids
                     /\ Range(new.concurrent_session_ids)
                           = Range(old.concurrent_session_ids) \cup added
                     /\ new.is_concurrent <=> (old.is_concurrent \/ added # {})]_vars

\* A session that already listed an ended session has a second one appended,
\* and the new session lists it.
C21_Witness ==
    /\ Len(active_sessions) = 2
    /\ Len(active_sessions[1].concurrent_session_ids) = 2
    /\ active_sessions[1].is_concurrent
    /\ active_sessions[2].concurrent_session_ids = <<active_sessions[1].id>>
    /\ Len(save_calls) = 1

\* One pass has created two sessions: the first started unlinked and then had
\* the second appended.
TwoCreatedInOnePass ==
    /\ Len(active_sessions) = 2
    /\ active_sessions[1].start_time = active_sessions[2].start_time
    /\ active_sessions[1].concurrent_session_ids = <<active_sessions[2].id>>
    /\ active_sessions[2].concurrent_session_ids = <<active_sessions[1].id>>

\* The sessions that have ended: queued, drained or handed to save_session.
EndedSessions ==
    Range(completed_sessions) \cup Range(loop_completed) \cup Range(save_calls)

\* The first instant after the active window of s; an Active session's window
\* is open.
WindowEnd(s) == IF IsSome(s.end_time) THEN Unwrap(s.end_time) ELSE now + 1

\* Both sessions were in the Active set after one and the same pass.
ActiveTogether(s, r) ==
    /\ s.id # r.id
    /\ s.start_time < WindowEnd(r)
    /\ r.start_time < WindowEnd(s)

\* C22: an ended session is flagged concurrent exactly when it was in the
\* Active set together with another session after some pass, and a session
\* that ends in the pass in which another starts is not linked with it.
C22_FlagIffActiveTogether ==
    /\ \A s \in EndedSessions :
          s.is_concurrent <=> \E r \in AllSessions : ActiveTogether(s, r)
    /\ \A s \in EndedSessions : \A r \in AllSessions :
          s.end_time = Some(r.start_time) =>
              /\ r.id \notin Range(s.concurrent_session_ids)
              /\ s.id \notin Range(r.concurrent_session_ids)

\* An unflagged session ended in the pass that started another one, and a
\* flagged session has ended as well.
C22_Witness ==
    \E s, r, c \in EndedSessions :
        /\ ~s.is_concurrent
        /\ s.end_time = Some(r.start_time)
        /\ c.is_concurrent

\* The sessions that a pass hands to save_session.
SavedByPass == {save_calls'[k] : k \in (DOMAIN save_calls') \ (DOMAIN save_calls)}

\* C23: a pass ends exactly the Active sessions whose process name is not
\* among the monitored names of the snapshot and stamps them with the time of
\* the pass; an ended session is never Active again; a session that a pass
\* creates has an id that no session had before and starts at the time of the
\* pass, after every ended session of the same process.
C23_InactiveActiveEnded ==
    /\ [](Ids(active_sessions) \cap {s.id : s \in EndedSessions \cup db_sessions} = {})
    /\ [](\A i \in DOMAIN active_sessions :
             active_sessions[i].end_time = None /\ active_sessions[i].start_time <= now)
    /\ [][(now' # now) =>
            /\ {s.id : s \in SavedByPass}
                  = {active_sessions[i].id : i \in (DOMAIN active_sessions) \ Survivors}
            /\ \A s \in SavedByPass : s.end_time = Some(now')
            /\ {active_sessions[i].id : i \in Survivors} \subseteq Ids(active_sessions')
            /\ \A j \in Created :
                  LET n == active_sessions'[j]
                  IN  /\ n.id \notin {s.id : s \in AllSessions}
                      /\ n.start_time = now'
                      /\ \A e \in EndedSessions' :
                            e.process_name = n.process_name =>
                                /\ e.id # n.id
                                /\ Unwrap(e.end_time) < n.start_time]_vars

\* The process of an ended session has reappeared and has a session of its own.
C23_Witness ==
    \E i \in DOMAIN active_sessions : \E e \in EndedSessions :
        /\ e.process_name = active_sessions[i].process_name
        /\ e.id # active_sessions[i].id
        /\ Unwrap(e.end_time) < active_sessions[i].start_time

\* C24: the loop's lock attempts return at once whatever the state of the
\* locks, every tick comes to its end, and a command that waits for a lock
\* gets it, runs and returns.
C24_NoWaitNoDeadlock ==
    /\ [](loop_pc = "sleep" => ENABLED (LoopTick \/ LoopTickSkipped))
    /\ [](loop_pc = "try_db" => ENABLED LoopTryLockDb)
    /\ (loop_pc # "sleep") ~> (loop_pc = "sleep")
    /\ (h_pc = "lock_first") ~> (h_pc = "run")
    /\ (h_pc = "lock_monitor") ~> (h_pc = "run")
    /\ (h_pc # "idle") ~> (h_pc = "idle")

\* The live-status command holds the persistence lock and waits for the
\* tracker lock, which the loop holds while it tries the persistence lock.
C24_Witness ==
    /\ h_pc = "lock_monitor" /\ h_cmd = "get_realtime_budget_status"
    /\ db_lock = "handler"
    /\ monitor_lock = "loop"
    /\ loop_pc = "try_db"

\* C25: within a tick the order is update, drain, saves, so a session that a
\* tick ends is in the storage when that tick is over; a session that is
\* ended and in no queue can only have been saved by then.
C25_EndedSessionSavedInSameTick ==
    [][(loop_pc # "sleep" /\ loop_pc' = "sleep") =>
        \A i \in DOMAIN Unwrap(tick_start).active :
            LET s == Unwrap(tick_start).active[i]
            IN  s.id \notin Ids(active_sessions') =>
                    \/ s.id \in {r.id : r \in db_sessions'}
                    \/ s.id \in Ids(completed_sessions') \cup Ids(loop_completed')]_vars

\* The stored sessions with a start and an end whose start is on or after the
\* local midnight of the day of t.
SelectedToday(table, t) ==
    {r \in table : r.start_time >= today_start(t) /\ IsSome(r.end_time)}

\* The merged seconds of the rows, handed to the merger in an order of start.
MergedSeconds(rows) ==
    {calculate_unique_time_periods(
         [i \in 1..Len(o) |-> <<o[i].start_time, Unwrap(o[i].end_time), o[i].is_concurrent>>]) :
       o \in OrderedByStart(rows)}

\* C26: the minutes used today are the merged seconds of the stored sessions
\* that have an end and started on or after local midnight, divided by 60 and
\* rounded down.
C26_UsageIsFloorOfTodaysMerge ==
    IsSome(call_result) =>
        Unwrap(call_result) \in
            {seconds \div SecondsPerMinute :
                seconds \in MergedSeconds(SelectedToday(db_sessions, now))}

\* C26, rounding toward zero: as above with the quotient truncated, which is
\* the rounding down whenever the merged seconds are not negative.
C26_UsageIsQuotientOfTodaysMerge ==
    IsSome(call_result) =>
        /\ Unwrap(call_result) \in
              {TruncDiv(seconds, SecondsPerMinute) :
                  seconds \in MergedSeconds(SelectedToday(db_sessions, now))}
        /\ \A seconds \in MergedSeconds(SelectedToday(db_sessions, now)) :
              seconds >= 0 =>
                  TruncDiv(seconds, SecondsPerMinute) = seconds \div SecondsPerMinute

\* The table holds a session that began before midnight and ended after it, a
\* session without an end and a session of 90 seconds begun at midnight; the
\* query after midnight returns 1.
C26_Witness ==
    /\ now < 2 * SecondMidnight
    /\ \E r \in db_sessions :
          r.start_time < SecondMidnight /\ Unwrap(r.end_time) > SecondMidnight
    /\ \E r \in db_sessions : r.end_time = None
    /\ Cardinality(db_sessions) = 3
    /\ call_result = Some(1)

\* The lists that hold the same periods as `periods`, in every order.
Reorderings(periods) ==
    {[i \in DOMAIN periods |-> periods[f[i]]] :
        f \in {g \in [DOMAIN periods -> DOMAIN periods] :
                  \A i, j \in DOMAIN periods : i # j => g[i] # g[j]}}

\* C27: the merger returns the same total for every order in which the same
\* periods are supplied (the sort is stable, so the order supplied is also
\* the order of the periods with equal start after the sort).
C27_MergerIsOrderIndependent ==
    IsSome(m_result) =>
        \A q \in Reorderings(m_periods) :
            calculate_unique_time_periods(q) = Unwrap(m_result)

\* With every endpoint on a whole second the order supplied does not matter.
OrderIndependentOnWholeSeconds ==
    (IsSome(m_result) /\ WholeSeconds(m_periods)) => C27_MergerIsOrderIndependent

\* The whole seconds that the tracker reports as active at instant t.
ActiveSeconds(sessions, t) ==
    IF sessions = <<>> THEN 0 ELSE SecondsSinceEarliest(sessions, t)

\* C28: a live-usage status has the allowance, rollover, earned and total of a
\* persisted status of the same instant, its used minutes are that status's
\* used minutes plus the tracker's active seconds divided by 60 and rounded
\* down, and its remaining is not greater than that status's remaining.
C28_LiveStatusOnTopOfPersisted ==
    [][Cmd_get_realtime_budget_status =>
        \E p \in get_budget_status(db_settings, db_sessions, db_learning, db_rollover, now) :
            LET live == Unwrap(budget')
            IN  /\ live.daily_allowance_minutes = p.daily_allowance_minutes
                /\ live.rollover_minutes = p.rollover_minutes
                /\ live.earned_minutes = p.earned_minutes
                /\ live.total_available_minutes = p.total_available_minutes
                /\ live.used_today_minutes
                      = p.used_today_minutes
                          + (ActiveSeconds(active_sessions, now) \div SecondsPerMinute)
                /\ live.remaining_today_minutes <= p.remaining_today_minutes]_vars

\* A live-usage status over 30 persisted minutes and a session Active for 100
\* minutes, with less left than the persisted status of that instant has.
C28_Witness ==
    /\ IsSome(budget)
    /\ Len(active_sessions) = 1
    /\ now - active_sessions[1].start_time = 100 * TicksPerMinute
    /\ Unwrap(budget).used_today_minutes = 130
    /\ \E p \in get_budget_status(db_settings, db_sessions, db_learning, db_rollover, now) :
          /\ p.used_today_minutes = 30
          /\ Unwrap(budget).remaining_today_minutes < p.remaining_today_minutes

\* The minutes of the entries, every date taken once.
RECURSIVE SumOncePerDate(_, _)
SumOncePerDate(rows, dates) ==
    IF dates = {} THEN 0
    ELSE LET d == CHOOSE x \in dates : TRUE
             r == CHOOSE x \in rows : x.date = d
         IN  r.unused_minutes + SumOncePerDate(rows, dates \ {d})

\* C29: the rollover store holds at most one entry per date; add_rollover
\* leaves exactly one entry for its date, with the minutes and the expiry of
\* the call, and the entries of the other dates as they were; the rollover
\* sum of a query counts each date once.
C29_OneEntryPerDate ==
    /\ [](\A r, q \in db_rollover : r.date = q.date => r = q)
    /\ [][\A d \in RolloverDates, u \in UpsertMinutes, e \in UpsertExpiries :
            Call_add_rollover(d, u, e) =>
                /\ {r \in db_rollover' : r.date = d}
                      = {[date |-> d, unused_minutes |-> u, expires_at |-> to_rfc3339(e)]}
                /\ {r \in db_rollover' : r.date # d} = {r \in db_rollover : r.date # d}]_vars
    /\ [][BudgetQueryStep =>
            LET live == {r \in db_rollover : InstantOf(r.expires_at) >= now}
            IN  Unwrap(budget').rollover_minutes
                    = SumOncePerDate(live, {r.date : r \in live})]_vars

\* The last add_rollover found an entry of its date with other minutes and
\* another expiry, next to an entry of another date; the store now holds the
\* new entry and the other date's entry, and a query has summed the two.
C29_Witness ==
    /\ IsSome(call_args)
    /\ LET before == Unwrap(call_args)[1]
           d == Unwrap(call_args)[2]
           u == Unwrap(call_args)[3]
       IN  /\ \E r \in before : r.date = d /\ r.unused_minutes # u
                                 /\ r.expires_at # to_rfc3339(Unwrap(call_args)[4])
           /\ \E r \in before : r.date # d /\ r \in db_rollover
           /\ Cardinality(db_rollover) = 2
           /\ IsSome(budget)
           /\ Unwrap(budget).rollover_minutes = u + 10

\* C30: no session lists its own id among its concurrent ids, and every id
\* that an Active or ended session lists is the id of another session that
\* was in the Active set together with it after some pass.
C30_ConcurrentIdsAreCoActiveOthers ==
    \A s \in Range(active_sessions) \cup EndedSessions :
        /\ s.id \notin Range(s.concurrent_session_ids)
        /\ \A i \in Range(s.concurrent_session_ids) :
              \E r \in AllSessions : r.id = i /\ ActiveTogether(s, r)

\* An ended session lists another session, and an Active session lists two.
C30_Witness ==
    /\ \E s \in EndedSessions : s.concurrent_session_ids # <<>>
    /\ \E i \in DOMAIN active_sessions :
          Cardinality(Range(active_sessions[i].concurrent_session_ids)) = 2

\* C31: a pass leaves a session that stays Active as it was, but for its
\* concurrency flag, which may go from false to true only, and its concurrent
\* ids, to which ids may be appended only.
C31_SurvivorKeepsItsFields ==
    [][(now' # now) =>
        \A i \in Survivors :
            \E j \in DOMAIN active_sessions' :
                LET old == active_sessions[i]
                    new == active_sessions'[j]
                IN  /\ new = [old EXCEPT
                                !.is_concurrent = new.is_concurrent,
                                !.concurrent_session_ids = new.concurrent_session_ids]
                    /\ old.is_concurrent => new.is_concurrent
                    /\ Len(new.concurrent_session_ids) >= Len(old.concurrent_session_ids)
                    /\ Prefix(new.concurrent_session_ids, Len(old.concurrent_session_ids))
                          = old.concurrent_session_ids
                    /\ (new # old) => new.is_concurrent]_vars

\* A session has stayed Active over three passes, in which a second and a
\* third session were linked to it.
C31_Witness ==
    \E i \in DOMAIN active_sessions :
        /\ active_sessions[i].start_time + 3 * TicksPerSecond <= now
        /\ active_sessions[i].is_concurrent
        /\ Len(active_sessions[i].concurrent_session_ids) = 2
        /\ active_sessions[i].end_time = None

\* The live-status command holds both locks and reads its data.
LiveQueryReads == h_pc = "run" /\ h_cmd = "get_realtime_budget_status"

\* C32: when a live-status query reads, no session is both Active and
\* stored, and every session created so far is Active or stored; a session
\* is handed to save_session only when it is no longer Active, and only while
\* the loop holds the tracker lock.
C32_QuerySeesEverySessionOnce ==
    /\ [](LiveQueryReads =>
            /\ Ids(active_sessions) \cap {r.id : r \in db_sessions} = {}
            /\ \A id \in 1..(next_id - 1) :
                  id \in Ids(active_sessions) \cup {r.id : r \in db_sessions})
    /\ [](Ids(save_calls) \cap Ids(active_sessions) = {})
    /\ [][(save_calls' # save_calls) => (monitor_lock = "loop" /\ monitor_lock' = "loop")]_vars

\* The parts of C32 that do not turn on a dropped session.
SavedAfterRemovalUnderTrackerLock ==
    /\ [](LiveQueryReads => Ids(active_sessions) \cap {r.id : r \in db_sessions} = {})
    /\ [](Ids(save_calls) \cap Ids(active_sessions) = {})
    /\ [][(save_calls' # save_calls) => (monitor_lock = "loop" /\ monitor_lock' = "loop")]_vars

\* C33: a pass of a paused tracker ends no session, so a session whose
\* process has exited stays Active and get_total_active_time goes on counting
\* from the earliest start; the first pass of the resumed tracker ends every
\* session whose process is gone, with the instant of that pass as end time
\* and the whole seconds from its start to that instant as duration.
C33_EndedByFirstPassAfterResume ==
    /\ [][(now' # now /\ is_paused) =>
            UNCHANGED <<active_sessions, completed_sessions, save_calls, db_sessions>>]_vars
    /\ [][(now' # now /\ ~is_paused) =>
            \A i \in (DOMAIN active_sessions) \ Survivors :
                \E s \in SavedByPass :
                    /\ s.id = active_sessions[i].id
                    /\ s.start_time = active_sessions[i].start_time
                    /\ s.end_time = Some(now')
                    /\ s.duration_seconds
                          = Some((now' - s.start_time) \div TicksPerSecond)]_vars
    /\ [](IsSome(call_result) =>
            /\ Unwrap(call_args)[1] # <<>>
            /\ Unwrap(call_result)
                  = SecondsSinceEarliest(Unwrap(call_args)[1], Unwrap(call_args)[2]))

\* get_total_active_time counted a session in the pause, after its process
\* had exited; a pass of the paused tracker left the session Active, and a
\* pass two seconds after the call ended it, with those seconds in its duration.
C33_Witness ==
    /\ IsSome(call_result)
    /\ Unwrap(call_result) >= 1
    /\ \E k \in DOMAIN save_calls :
          LET s == save_calls[k]
              t == Unwrap(call_args)[2]
          IN  /\ s.id \in Ids(Unwrap(call_args)[1])
              /\ Unwrap(s.end_time) >= t + 2 * TicksPerSecond
              /\ Unwrap(s.duration_seconds) >= Unwrap(call_result) + 2

\* The statuses that a status query may return in the current state.
PossibleStatuses ==
    get_budget_status(db_settings, db_sessions, db_learning, db_rollover, now)

\* C34: a status query leaves the stored sessions, learning activities and
\* settings as they are and deletes exactly the rollover entries that expired
\* before now; a status query at the same instant with no write in between
\* has the same statuses to return, the returned one among them.
C34_StatusQueryOnlyPrunes ==
    [][(budget = None /\ budget' # None /\ BudgetQueryStep) =>
        /\ db_sessions' = db_sessions
        /\ save_calls' = save_calls
        /\ db_learning' = db_learning
        /\ db_settings' = db_settings
        /\ db_rollover' = {r \in db_rollover : InstantOf(r.expires_at) >= now}
        /\ get_budget_status(db_settings', db_sessions', db_learning',
                             db_rollover', now') = PossibleStatuses
        /\ Cmd_get_budget_status => Unwrap(budget') \in PossibleStatuses]_vars

\* With no two stored sessions that start together between whole seconds, the
\* status is determined by the stored data and the instant.
StatusIsDetermined == Cardinality(PossibleStatuses) = 1

\* A status query has returned over stored sessions, a learning activity and
\* a rollover entry that expires at the instant of the query and is kept.
C34_Witness ==
    /\ IsSome(budget)
    /\ db_sessions # {}
    /\ db_learning # <<>>
    /\ Cardinality(db_rollover) = 1
    /\ \A r \in db_rollover : InstantOf(r.expires_at) = now
    /\ Unwrap(budget) \in PossibleStatuses
    /\ Unwrap(budget).rollover_minutes = 10
    /\ Unwrap(budget).earned_minutes > 0

====
